---- MODULE Spec2Model ----
(***************************************************************************)
(* Model of the local data layer of whatsapp-chat-viewer:                  *)
(*   - the normalized IndexedDB store (src/src/utils/normalizedDb.ts):     *)
(*     connection handle, transactions with their scopes, the requests     *)
(*     each exported operation places and the handlers that run on them;   *)
(*   - the transcript parser (src/src/workers/chatParser.worker.ts).       *)
(*                                                                         *)
(* IndexedDB is modelled by its scheduling rule: transactions are kept in  *)
(* creation order, a transaction may run a request only when no earlier    *)
(* live transaction with an overlapping scope conflicts with it (two       *)
(* transactions conflict unless both are read-only), a request error that  *)
(* the handler does not preventDefault aborts the transaction and restores *)
(* the stores of its scope.  A failure of the commit itself after the last *)
(* request succeeded is not modelled.                                      *)
(***************************************************************************)
EXTENDS Integers, Sequences, FiniteSets, TLC

VARIABLES db, conns, opens, txs, store, ops, now, fails,
          lines, cursor, parsed, participants, events, wpc, host,
          idb, legacy, localStorage, mig, hook, perf

storeVars  == <<db, conns, opens, txs, store, ops, now, fails>>
parserVars == <<lines, cursor, parsed, participants, events, wpc, host>>
appVars    == <<idb, legacy, localStorage, mig, hook, perf>>
vars       == <<db, conns, opens, txs, store, ops, now, fails,
                lines, cursor, parsed, participants, events, wpc, host,
                idb, legacy, localStorage, mig, hook, perf>>

(***************************************************************************)
(* Bounds of the model.                                                    *)
(***************************************************************************)
\* number of calls of exported operations in one behaviour
MaxCalls == 2
\* number of failing open / store requests in one behaviour
MaxFail == 1
\* number of clock ticks (Date.now() advances) in one behaviour
MaxClock == 1

(***************************************************************************)
(* Characters and text.  Text is a sequence of one-character strings.      *)
(***************************************************************************)
Digits == {"0", "1", "2", "3", "4", "5", "6", "7", "8", "9"}

\* \s of the regular expressions and the whitespace of trim, restricted to
\* the characters of the model
Space == {" ", "\r"}

\* the line terminators, which the dot of a regular expression does not match
LineTerminators == {"\r"}

\* the character at position i of s, "" outside of s
At(s, i) == IF i \in 1..Len(s) THEN s[i] ELSE ""

DigitVal(c) ==
  CASE c = "0" -> 0 [] c = "1" -> 1 [] c = "2" -> 2 [] c = "3" -> 3
    [] c = "4" -> 4 [] c = "5" -> 5 [] c = "6" -> 6 [] c = "7" -> 7
    [] c = "8" -> 8 [] c = "9" -> 9

\* String.prototype.trim
RECURSIVE TrimLeft(_)
TrimLeft(s) ==
  IF s # <<>> /\ Head(s) \in Space THEN TrimLeft(Tail(s)) ELSE s

RECURSIVE TrimRight(_)
TrimRight(s) ==
  IF s # <<>> /\ s[Len(s)] \in Space THEN TrimRight(SubSeq(s, 1, Len(s) - 1)) ELSE s

Trim(s) == TrimRight(TrimLeft(s))

\* length of the run of digits of s that starts at position i
RECURSIVE DigitRun(_, _)
DigitRun(s, i) ==
  IF i <= Len(s) /\ s[i] \in Digits THEN 1 + DigitRun(s, i + 1) ELSE 0

\* length of the run of whitespace of s that starts at position i
RECURSIVE SpaceRun(_, _)
SpaceRun(s, i) ==
  IF i <= Len(s) /\ s[i] \in Space THEN 1 + SpaceRun(s, i + 1) ELSE 0

\* decimal value of the digits s[i .. i+n-1]
RECURSIVE NumAt(_, _, _)
NumAt(s, i, n) ==
  IF n = 0 THEN 0 ELSE NumAt(s, i, n - 1) * 10 + DigitVal(s[i + n - 1])

\* position of the first occurrence of character c in s, 0 when absent
RECURSIVE FirstIndexFrom(_, _, _)
FirstIndexFrom(s, c, i) ==
  IF i > Len(s) THEN 0
  ELSE IF s[i] = c THEN i ELSE FirstIndexFrom(s, c, i + 1)

FirstIndex(s, c) == FirstIndexFrom(s, c, 1)

(***************************************************************************)
(* Timestamp derivation: parseTimestamp (normalizedDb.ts 193-217).         *)
(***************************************************************************)
DateSep == {"/", "-"}

\* the three digit runs a, b, c of a date text and whether the separators
\* and the end of the text are where /^\d+[/-]\d+[/-]\d+$/ wants them
DateRuns(s, a, b, c) ==
  [a |-> a, b |-> b, c |-> c,
   ok |-> /\ a >= 1 /\ b >= 1 /\ c >= 1
          /\ Len(s) = a + b + c + 2
          /\ s[a + 1] \in DateSep
          /\ s[a + b + 2] \in DateSep]

DateRunsAfter2(s, a, b) == DateRuns(s, a, b, DigitRun(s, a + b + 3))

DateRunsAfter1(s, a) == DateRunsAfter2(s, a, DigitRun(s, a + 2))

DateShape(s) == DateRunsAfter1(s, DigitRun(s, 1))

\* the digit counts of the two alternatives of dateRegex
DateDigits(sh) ==
  /\ sh.ok
  /\ \/ (sh.a \in 1..2 /\ sh.b \in 1..2 /\ sh.c = 4)
     \/ (sh.a = 4 /\ sh.b \in 1..2 /\ sh.c \in 1..2)

\* /^\d{1,2}[/-]\d{1,2}[/-]\d{4}$|^\d{4}[/-]\d{1,2}[/-]\d{1,2}$/.test(s)
dateRegex(s) == DateDigits(DateShape(s))

\* /^\d{1,2}:\d{2}(:\d{2})?(\s?(AM|PM))?$/i.test(s)
timeRegex(s) ==
  LET h         == DigitRun(s, 1)
      q         == h + 4
      IsD(i)    == i <= Len(s) /\ s[i] \in Digits
      SecAt     == q <= Len(s) /\ s[q] = ":" /\ IsD(q + 1) /\ IsD(q + 2)
      AmPmAt(p) == /\ Len(s) = p + 1
                   /\ s[p] \in {"A", "a", "P", "p"}
                   /\ s[p + 1] \in {"M", "m"}
      TailAt(p) == \/ Len(s) = p - 1
                   \/ AmPmAt(p)
                   \/ (p <= Len(s) /\ s[p] \in Space /\ AmPmAt(p + 1))
  IN  /\ h \in 1..2
      /\ Len(s) >= h + 3
      /\ s[h + 1] = ":"
      /\ IsD(h + 2) /\ IsD(h + 3)
      /\ (TailAt(q) \/ (SecAt /\ TailAt(q + 3)))

\* the not-a-number result of Date.prototype.getTime: a value below every
\* time value of the model
NaN == -2000000000

\* a calendar minute counted in months of 31 days
CalendarCount(y, mo, d, h, mi) ==
  (((y * 12 + (mo - 1)) * 31 + (d - 1)) * 24 + h) * 60 + mi

\* the time value of a calendar minute: its distance from 1 January 1970,
\* negative before it
Ts(y, mo, d, h, mi) == CalendarCount(y, mo, d, h, mi) - CalendarCount(1970, 1, 1, 0, 0)

\* Date.now() at tick t of the session clock
NowBase == Ts(2026, 11, 2, 0, 0)
NowMs(t) == NowBase + t

\* year, month and day of a date text of shape sh: month/day/year, or
\* year/month/day when the first run has four digits
DateFields(d, sh) ==
  IF sh.a = 4
  THEN <<NumAt(d, 1, sh.a), NumAt(d, sh.a + 2, sh.b), NumAt(d, sh.a + sh.b + 3, sh.c)>>
  ELSE <<NumAt(d, sh.a + sh.b + 3, sh.c), NumAt(d, 1, sh.a), NumAt(d, sh.a + 2, sh.b)>>

\* hour and minute of a time text whose hour has hl digits
TimeFields(t, hl) == <<NumAt(t, 1, hl), NumAt(t, hl + 2, 2)>>

\* a month, day, hour or minute out of range gives an invalid date
CalendarMinute(ymd, hm) ==
  IF ymd[2] \in 1..12 /\ ymd[3] \in 1..31 /\ hm[1] \in 0..23 /\ hm[2] \in 0..59
  THEN Ts(ymd[1], ymd[2], ymd[3], hm[1], hm[2])
  ELSE NaN

DateOfTexts(d, t) ==
  CalendarMinute(DateFields(d, DateShape(d)), TimeFields(t, DigitRun(t, 1)))

\* new Date(`${date} ${time}`).getTime() for texts that passed both
\* regular expressions
DateGetTime(date, time) == DateOfTexts(Trim(date), Trim(time))

\* a variant that hands on the time value as it was parsed
TimestampAsParsed(timestamp, t) == timestamp

\* the fallbacks of parseTimestamp: Date.now() for a NaN time value
TimestampOr(timestamp, t) == IF timestamp = NaN THEN NowMs(t) ELSE timestamp

\* parseTimestamp(date, time), Date.now() being NowMs(t)
parseTimestamp(date, time, t) ==
  IF ~dateRegex(Trim(date)) THEN NowMs(t)
  ELSE IF ~timeRegex(Trim(time)) THEN NowMs(t)
  ELSE TimestampOr(DateGetTime(date, time), t)

(***************************************************************************)
(* The universe of the store model.                                        *)
(***************************************************************************)
STORES == [CHATS |-> "chats", MESSAGES |-> "messages", BOOKMARKS |-> "bookmarks"]

ChatIds == {"c1", "c2"}

\* message ids in primary-key order
MsgIdSeq == <<"m1", "m2", "m3", "m4", "m5", "m6", "m7">>
\* the messages of the chats the chat and bookmark operations work on
MsgIds == {"m1", "m2"}
\* messages with other date and time texts: a date in 2099, one in 1969, a
\* month 31, a time that is none, and neither a date nor a time
DatedIds == {"m3", "m4", "m5", "m6", "m7"}
Rank(id) == CHOOSE i \in 1..Len(MsgIdSeq) : MsgIdSeq[i] = id

\* the Message objects the callers pass around (types/chat Message); m1 has
\* a four-digit year, m2 the two-digit year of a WhatsApp export
DateTextOf(id) ==
  CASE id = "m2" -> <<"1", "/", "2", "/", "2", "3">>
    [] id = "m3" -> <<"1", "/", "2", "/", "2", "0", "9", "9">>
    [] id = "m4" -> <<"1", "/", "2", "/", "1", "9", "6", "9">>
    [] id = "m5" -> <<"3", "1", "/", "1", "2", "/", "2", "0", "2", "3">>
    [] id = "m7" -> <<"n", "o", "t", "-", "a", "-", "d", "a", "t", "e">>
    [] OTHER -> <<"1", "/", "2", "/", "2", "0", "2", "3">>

TimeTextOf(id) ==
  CASE id = "m1" -> <<"1", "0", ":", "0", "0">>
    [] id \in {"m6", "m7"} -> <<"t", "i", "m", "e", "s">>
    [] OTHER -> <<"1", "0", ":", "0", "2">>

MessageOf(id) ==
  IF id = "m2"
  THEN [id |-> id, date |-> DateTextOf(id), time |-> TimeTextOf(id),
        sender |-> "System", content |-> "Bob joined", isSystemMessage |-> TRUE]
  ELSE [id |-> id, date |-> DateTextOf(id), time |-> TimeTextOf(id),
        sender |-> "Alice", content |-> "Hello", isSystemMessage |-> FALSE]

\* the messageData argument of saveBookmark
MessageDataOf(m) ==
  [sender |-> m.sender, content |-> m.content, date |-> m.date,
   time |-> m.time, isSystemMessage |-> m.isSystemMessage]

MessageDatas == {MessageDataOf(MessageOf(id)) : id \in MsgIds}

\* ChatRecord, MessageRecord and BookmarkRecord (normalizedDb.ts 20-53)
\* Set.prototype.add: a Set keeps its elements in insertion order, each once
SetAdd(set, x) ==
  IF \E j \in 1..Len(set) : set[j] = x THEN set ELSE Append(set, x)

\* [...new Set(messages.filter(m => !m.isSystemMessage).map(m => m.sender))]
\* (160-164)
RECURSIVE SendersOf(_, _)
SendersOf(set, messages) ==
  IF messages = <<>> THEN set
  ELSE SendersOf(IF ~Head(messages).isSystemMessage
                 THEN SetAdd(set, Head(messages).sender) ELSE set,
                 Tail(messages))

ChatRecord(chat) ==
  LET senders == SendersOf(<<>>, chat.messages)
  IN  [id |-> chat.id, name |-> chat.name, messageCount |-> Len(chat.messages),
       participantCount |-> Len(senders), participants |-> senders]

MessageRecord(chatId, message, t) ==
  [id |-> message.id, chatId |-> chatId, date |-> message.date,
   time |-> message.time, sender |-> message.sender,
   content |-> message.content, isSystemMessage |-> message.isSystemMessage,
   timestamp |-> parseTimestamp(message.date, message.time, t)]

BookmarkRecord(messageId, chatId, messageData, chatName, t) ==
  [id |-> messageId, chatId |-> chatId, createdAt |-> NowMs(t),
   sender |-> messageData.sender, content |-> messageData.content,
   date |-> messageData.date, time |-> messageData.time,
   chatName |-> chatName, isSystemMessage |-> messageData.isSystemMessage]

(***************************************************************************)
(* Object-store primitives; every store has keyPath 'id'.                  *)
(***************************************************************************)
\* an insert that keeps the row that already has the key
PutKeepingOld(rows, rec) == rows \cup {rec}

\* IDBObjectStore.put: insert, or replace the row with the same key
Put(rows, rec) == {r \in rows : r.id # rec.id} \cup {rec}

\* IDBObjectStore.delete: no error when the key is absent
Delete(rows, key) == {r \in rows : r.id # key}

\* IDBObjectStore.get: the rows with the key (none: result undefined)
Get(rows, key) == {r \in rows : r.id = key}

\* a lookup that takes the chat id for the primary key of the rows
IndexGetAllByKey(rows, chatId) == {r \in rows : r.id = chatId}

\* index('chatId').getAll(chatId)
IndexGetAll(rows, chatId) == {r \in rows : r.chatId = chatId}

\* the ids of a set of rows as a sequence in primary-key order
KeyOrder(ids) == SelectSeq(MsgIdSeq, LAMBDA x : x \in ids)

\* !!request: the request object itself is always truthy
IsRequestTruthy(rows, messageId) == TRUE

\* !!request.result of a get on the bookmarks store
IsBookmarkedIn(rows, messageId) == Get(rows, messageId) # {}

(***************************************************************************)
(* Read results.                                                           *)
(***************************************************************************)
\* the absent optional argument of loadChatMessages
Undefined == -1

\* rows of an index scan in index order: timestamp, then primary key
RECURSIVE IndexOrder(_)
IndexOrder(rows) ==
  IF rows = {} THEN <<>>
  ELSE LET r == CHOOSE x \in rows : \A y \in rows :
                  \/ x.timestamp < y.timestamp
                  \/ (x.timestamp = y.timestamp /\ Rank(x.id) <= Rank(y.id))
       IN  <<r>> \o IndexOrder(rows \ {r})

\* index('chatId_timestamp').getAll(IDBKeyRange.bound([chatId, lo], [chatId, hi]))
RangeGetAll(rows, chatId, lo, hi) ==
  IndexOrder({r \in rows : r.chatId = chatId /\ lo <= r.timestamp /\ r.timestamp <= hi})

\* Array.prototype.slice(from) for from >= 0
SliceFrom(seq, from) ==
  IF from >= Len(seq) THEN <<>> ELSE SubSeq(seq, from + 1, Len(seq))

\* Array.prototype.slice(0, n) for n >= 0
SliceTo(seq, n) == IF n >= Len(seq) THEN seq ELSE SubSeq(seq, 1, n)

\* the Message built from a MessageRecord by loadChatMessages (367-375)
LoadedMessage(record) ==
  [id |-> record.id, date |-> record.date, time |-> record.time,
   sender |-> record.sender, content |-> record.content,
   isBookmarked |-> FALSE, isSystemMessage |-> record.isSystemMessage]

\* request.onsuccess of loadChatMessages (366-386)
LoadChatMessagesResult(records, limit, offset) ==
  LET messages == [i \in 1..Len(records) |-> LoadedMessage(records[i])]
      skipped  == IF offset # Undefined THEN SliceFrom(messages, offset) ELSE messages
  IN  IF limit # Undefined THEN SliceTo(skipped, limit) ELSE skipped

\* request.onsuccess of loadAllChatMetadata (327-333): the rows of
\* store.getAll() in key order
ChatIdSeq == <<"c1", "c2">>

LoadAllChatMetadataResult(rows) ==
  LET ids == SelectSeq(ChatIdSeq, LAMBDA c : \E r \in rows : r.id = c)
  IN  [i \in 1..Len(ids) |-> CHOOSE r \in rows : r.id = ids[i]]

\* the value loadChat returns (411-419); found = FALSE stands for null
NullChat == [found |-> FALSE, id |-> "", name |-> "", messages |-> <<>>]

LoadChatResult(metadata, messages) ==
  IF metadata = {} THEN NullChat
  ELSE LET m == CHOOSE r \in metadata : TRUE
       IN  [found |-> TRUE, id |-> m.id, name |-> m.name, messages |-> messages]

\* the BookmarkedMessage built from a BookmarkRecord by loadBookmarks (525-535)
BookmarkedMessage(bookmark) ==
  [id |-> bookmark.id, date |-> bookmark.date, time |-> bookmark.time,
   sender |-> bookmark.sender, content |-> bookmark.content,
   isBookmarked |-> TRUE, isSystemMessage |-> bookmark.isSystemMessage,
   chatId |-> bookmark.chatId, chatName |-> bookmark.chatName]

\* a comparator that puts the oldest bookmark first
BookmarkCompareOldestFirst(bookmarkRecords, a, b) ==
  LET bookmarkA == {br \in bookmarkRecords : br.id = a.id}
      bookmarkB == {br \in bookmarkRecords : br.id = b.id}
  IN  IF bookmarkA = {} \/ bookmarkB = {} THEN 0
      ELSE (CHOOSE r \in bookmarkA : TRUE).createdAt
           - (CHOOSE r \in bookmarkB : TRUE).createdAt

\* the comparator of loadBookmarks (538-548): negative when a goes first
BookmarkCompare(bookmarkRecords, a, b) ==
  LET bookmarkA == {br \in bookmarkRecords : br.id = a.id}
      bookmarkB == {br \in bookmarkRecords : br.id = b.id}
  IN  IF bookmarkA = {} /\ bookmarkB = {} THEN 0
      ELSE IF bookmarkA = {} THEN 1
      ELSE IF bookmarkB = {} THEN -1
      ELSE (CHOOSE r \in bookmarkB : TRUE).createdAt
           - (CHOOSE r \in bookmarkA : TRUE).createdAt

\* Array.prototype.sort is a stable sort: insert x behind every element
\* that does not compare greater than it
RECURSIVE SortInsert(_, _, _)
SortInsert(bookmarkRecords, sorted, x) ==
  IF sorted = <<>> THEN <<x>>
  ELSE IF BookmarkCompare(bookmarkRecords, Head(sorted), x) <= 0
       THEN <<Head(sorted)>> \o SortInsert(bookmarkRecords, Tail(sorted), x)
       ELSE <<x>> \o sorted

RECURSIVE SortBookmarks(_, _)
SortBookmarks(bookmarkRecords, seq) ==
  IF seq = <<>> THEN <<>>
  ELSE SortInsert(bookmarkRecords,
                  SortBookmarks(bookmarkRecords, SubSeq(seq, 1, Len(seq) - 1)),
                  seq[Len(seq)])

\* the list loadBookmarks resolves to from the rows getAll delivered (524-548)
LoadBookmarksResult(bookmarkRecords) ==
  LET keys      == KeyOrder({r.id : r \in bookmarkRecords})
      bookmarks == [i \in 1..Len(keys) |->
                      BookmarkedMessage(CHOOSE r \in bookmarkRecords : r.id = keys[i])]
  IN  SortBookmarks(bookmarkRecords, bookmarks)

\* Object.fromEntries(statuses) of getBookmarkStatus (607)
FromEntries(statuses) ==
  [id \in {statuses[i][1] : i \in 1..Len(statuses)} |->
     LET last == CHOOSE i \in 1..Len(statuses) :
                   /\ statuses[i][1] = id
                   /\ \A j \in (i + 1)..Len(statuses) : statuses[j][1] # id
     IN  statuses[last][2]]

\* the value getMessageAndChatForBookmark returns (716-729); found = FALSE
\* stands for null
NullData == [found |-> FALSE, messageData |-> {}, chatName |-> ""]

\* a snapshot that fills in empty fields for the row it did not find
BookmarkDataOrEmpty(messageRecord, chatRecord) ==
  [found |-> TRUE,
   messageData |-> IF messageRecord = {}
                   THEN [sender |-> "", content |-> "", date |-> <<>>,
                         time |-> <<>>, isSystemMessage |-> FALSE]
                   ELSE MessageDataOf(CHOOSE r \in messageRecord : TRUE),
   chatName |-> IF chatRecord = {} THEN ""
                ELSE (CHOOSE r \in chatRecord : TRUE).name]

BookmarkData(messageRecord, chatRecord) ==
  IF messageRecord = {} \/ chatRecord = {} THEN NullData
  ELSE [found |-> TRUE,
        messageData |-> MessageDataOf(CHOOSE r \in messageRecord : TRUE),
        chatName |-> (CHOOSE r \in chatRecord : TRUE).name]

(***************************************************************************)
(* Operations in flight.  ops is the list of calls made so far; an         *)
(* operation is busy until its promise settles, then done with the status  *)
(* of the promise (ok = resolved, error = rejected), the value it resolved *)
(* to, and degraded = an error was caught and replaced by a default value. *)
(* ghost is a history field the code does not have: what the collections   *)
(* held at a moment the properties refer to.                               *)
(***************************************************************************)
NoOut == <<>>

NewOp(kind, a, parts) ==
  [kind |-> kind, a |-> a, pc |-> "busy", status |-> "ok", out |-> NoOut,
   degraded |-> FALSE, failed |-> FALSE, pend |-> parts,
   vals |-> [meta |-> {}, msgs |-> <<>>, data |-> <<>>],
   ghost |-> <<>>]

\* the promise of the operation settles; a settled promise stays as it is
Settle(o, status, out, degraded) ==
  IF o.pc = "done" THEN o
  ELSE [o EXCEPT !.pc = "done", !.status = status, !.out = out,
                 !.degraded = degraded]

\* Promise.all of saveChat (271-274): one part resolved
SaveChatResolved(o, part) ==
  LET o2 == [o EXCEPT !.pend = @ \ {part}]
  IN  IF o2.pend = {} THEN Settle(o2, "ok", NoOut, FALSE) ELSE o2

\* a variant in which a rejected part counts as a resolved one
SaveChatSettledAnyway(o, part) == SaveChatResolved(o, part)

\* Promise.all of saveChat: the first rejection rejects saveChat
SaveChatRejected(o, part) ==
  Settle([o EXCEPT !.pend = @ \ {part}], "error", NoOut, FALSE)

\* Promise.all of loadChat (406-419): one part resolved with val
LoadChatResolved(o, part, val, degraded) ==
  LET o2 == [o EXCEPT !.pend = @ \ {part}, !.vals[part] = val,
                      !.degraded = @ \/ degraded]
  IN  IF o2.pend = {}
      THEN Settle(o2, "ok", LoadChatResult(o2.vals.meta, o2.vals.msgs), o2.degraded)
      ELSE o2

\* Promise.all of loadChat: a part rejected, the catch returns null (420-422)
LoadChatRejected(o, part) ==
  Settle([o EXCEPT !.pend = @ \ {part}], "ok", NullChat, TRUE)

\* the part of operation o that reached its await settled successfully
Resolved(o, part, val) ==
  CASE o.kind = "saveChat" -> SaveChatResolved(o, part)
    [] o.kind = "loadChat" -> LoadChatResolved(o, part, val, FALSE)
    [] OTHER -> Settle(o, "ok", val, FALSE)

\* initNormalizedDB rejected: the catch block of the operation runs
OpenFailed(o, part) ==
  CASE o.kind = "saveChat" -> SaveChatRejected(o, part)
    [] o.kind = "loadChat" ->
         LoadChatResolved(o, part, IF part = "meta" THEN {} ELSE <<>>, TRUE)
    [] o.kind = "loadAllChatMetadata" -> Settle(o, "ok", <<>>, TRUE)
    [] o.kind = "loadChatMessages" -> Settle(o, "ok", <<>>, TRUE)
    [] o.kind = "loadBookmarks" -> Settle(o, "ok", <<>>, TRUE)
    [] o.kind = "isMessageBookmarked" -> Settle(o, "ok", FALSE, TRUE)
    [] o.kind = "getBookmarkStatus" -> Settle(o, "ok", <<>>, TRUE)
    [] OTHER -> Settle(o, "error", NoOut, FALSE)

\* a request of the part's transaction fired onerror.  The operations that
\* return their request promise without awaiting it (loadChatMetadata 296,
\* loadAllChatMetadata 325, loadChatMessages 362, isMessageBookmarked 570)
\* reject; the others run
\* their catch block
RequestFailed(o, part) ==
  CASE o.kind = "saveChat" -> SaveChatRejected(o, part)
    [] o.kind = "loadChat" -> LoadChatRejected(o, part)
    [] o.kind = "loadBookmarks" -> Settle(o, "ok", <<>>, TRUE)
    [] o.kind = "getBookmarkStatus" -> Settle(o, "ok", <<>>, TRUE)
    [] OTHER -> Settle(o, "error", NoOut, FALSE)

(***************************************************************************)
(* Transactions.  A transaction is created by database.transaction(scope,  *)
(* mode) together with the requests its operation places at once.          *)
(***************************************************************************)
EmptyStore == [chats |-> {}, messages |-> {}, bookmarks |-> {}]

NewTx(k, part, scope, mode, reqs) ==
  [op |-> k, part |-> part, scope |-> scope, mode |-> mode, reqs |-> reqs,
   started |-> FALSE, before |-> EmptyStore, acc |-> <<>>]

\* the collections each operation names in database.transaction(...)
\* a scope that has every bookmark operation join the messages and the
\* chats as well
TxScopeJoining(kind, part) ==
  CASE kind = "saveChat" /\ part = "meta" -> {STORES.CHATS}
    [] kind = "saveChat" /\ part = "msgs" -> {STORES.MESSAGES}
    [] kind = "loadChat" /\ part = "meta" -> {STORES.CHATS}
    [] kind = "loadChat" /\ part = "msgs" -> {STORES.MESSAGES}
    [] kind = "loadChatMessages" -> {STORES.MESSAGES}
    [] kind = "loadAllChatMetadata" -> {STORES.CHATS}
    [] OTHER -> {STORES.CHATS, STORES.MESSAGES, STORES.BOOKMARKS}

TxScope(kind, part) ==
  CASE kind = "saveChat" /\ part = "meta" -> {STORES.CHATS}
    [] kind = "saveChat" /\ part = "msgs" -> {STORES.MESSAGES}
    [] kind = "loadChat" /\ part = "meta" -> {STORES.CHATS}
    [] kind = "loadChat" /\ part = "msgs" -> {STORES.MESSAGES}
    [] kind = "loadChatMessages" -> {STORES.MESSAGES}
    [] kind = "loadAllChatMetadata" -> {STORES.CHATS}
    [] kind = "deleteChat" -> {STORES.CHATS, STORES.MESSAGES, STORES.BOOKMARKS}
    [] kind = "saveBookmarkLegacy" /\ part = "snap" -> {STORES.MESSAGES, STORES.CHATS}
    [] OTHER -> {STORES.BOOKMARKS}

TxMode(kind, part) ==
  IF \/ kind \in {"saveChat", "deleteChat", "saveBookmark", "removeBookmark"}
     \/ (kind = "saveBookmarkLegacy" /\ part = "save")
  THEN "readwrite" ELSE "readonly"

\* the requests placed right after the transaction is created, Date.now()
\* and new Date() being tick t
FirstRequests(o, part, t) ==
  CASE o.kind = "saveChat" /\ part = "meta" ->
         <<[t |-> "put", store |-> STORES.CHATS, rec |-> ChatRecord(o.a.chat)]>>
    [] o.kind = "saveChat" /\ part = "msgs" ->
         [i \in 1..Len(o.a.chat.messages) |->
            [t |-> "put", store |-> STORES.MESSAGES,
             rec |-> MessageRecord(o.a.chat.id, o.a.chat.messages[i], t),
             at |-> NowMs(t)]]
    [] o.kind = "loadChat" /\ part = "meta" ->
         <<[t |-> "get", store |-> STORES.CHATS, key |-> o.a.chatId]>>
    [] o.kind \in {"loadChat", "loadChatMessages"} /\ part # "meta" ->
         <<[t |-> "getRange", store |-> STORES.MESSAGES, chatId |-> o.a.chatId,
            lo |-> 0, hi |-> NowMs(t)]>>
    [] o.kind = "deleteChat" ->
         <<[t |-> "delete", store |-> STORES.CHATS, key |-> o.a.chatId]>>
    [] o.kind = "saveBookmark" ->
         <<[t |-> "put", store |-> STORES.BOOKMARKS,
            rec |-> BookmarkRecord(o.a.messageId, o.a.chatId, o.a.messageData,
                                   o.a.chatName, t)]>>
    [] o.kind = "saveBookmarkLegacy" /\ part = "save" ->
         <<[t |-> "put", store |-> STORES.BOOKMARKS,
            rec |-> BookmarkRecord(o.a.messageId, o.a.chatId,
                                   o.vals.data.messageData, o.vals.data.chatName, t)]>>
    [] o.kind = "saveBookmarkLegacy" /\ part = "snap" ->
         <<[t |-> "get", store |-> STORES.MESSAGES, key |-> o.a.messageId],
           [t |-> "get", store |-> STORES.CHATS, key |-> o.a.chatId]>>
    [] o.kind = "removeBookmark" ->
         <<[t |-> "delete", store |-> STORES.BOOKMARKS, key |-> o.a.messageId]>>
    [] o.kind = "loadBookmarks" ->
         <<[t |-> "getAll", store |-> STORES.BOOKMARKS]>>
    [] o.kind = "loadAllChatMetadata" ->
         <<[t |-> "getAll", store |-> STORES.CHATS]>>
    [] o.kind = "isMessageBookmarked" ->
         <<[t |-> "get", store |-> STORES.BOOKMARKS, key |-> o.a.messageId]>>
    [] o.kind = "getBookmarkStatus" ->
         [i \in 1..Len(o.a.messageIds) |->
            [t |-> "get", store |-> STORES.BOOKMARKS, key |-> o.a.messageIds[i]]]

\* the value an operation resolves to when Promise.all([]) has nothing to
\* wait for
EmptyResult(o) == IF o.kind = "getBookmarkStatus" THEN FromEntries(<<>>) ELSE NoOut

\* the transaction the code creates for part of operation k, with its first
\* requests; with no request to wait for, Promise.all([]) resolves at once
ArriveWith(T, O, k, part, reqs) ==
  [txs |-> Append(T, NewTx(k, part, TxScope(O[k].kind, part),
                           TxMode(O[k].kind, part), reqs)),
   ops |-> IF reqs = <<>>
           THEN [O EXCEPT ![k] = Resolved(O[k], part, EmptyResult(O[k]))]
           ELSE O]

\* operation k got its connection for part: the code after
\* `await initNormalizedDB()` runs up to the next await
Arrive(T, O, k, part, t) == ArriveWith(T, O, k, part, FirstRequests(O[k], part, t))

\* with the connection already open the parts of an operation arrive one
\* after the other within the same task
RECURSIVE ArriveAll(_, _, _, _, _)
RECURSIVE ArriveRest(_, _, _, _)
ArriveRest(r, k, parts, t) == ArriveAll(r.txs, r.ops, k, parts, t)

ArriveAll(T, O, k, parts, t) ==
  IF parts = <<>> THEN [txs |-> T, ops |-> O]
  ELSE ArriveRest(Arrive(T, O, k, Head(parts), t), k, Tail(parts), t)

\* the transactions and operations after an arrival
Adopt(r) ==
  /\ txs' = r.txs
  /\ ops' = r.ops

\* the transaction scheduling rule of IndexedDB
Conflict(t1, t2) ==
  /\ t1.scope \cap t2.scope # {}
  /\ (t1.mode = "readwrite" \/ t2.mode = "readwrite")

Startable(i) == \A j \in 1..(i - 1) : ~Conflict(txs[j], txs[i])

\* transaction i may run a request of type t now
Ready(i, kinds, part, t) ==
  /\ i \in DOMAIN txs
  /\ Startable(i)
  /\ ops[txs[i].op].kind \in kinds
  /\ txs[i].part = part
  /\ txs[i].reqs # <<>>
  /\ Head(txs[i].reqs).t = t

\* the transaction as it is once its first request runs
Begin(tx) == IF tx.started THEN tx ELSE [tx EXCEPT !.started = TRUE, !.before = store]

RemoveAt(seq, i) == SubSeq(seq, 1, i - 1) \o SubSeq(seq, i + 1, Len(seq))

\* transaction i continues as tx2; with no request left it is finished and
\* commits in a later step
Continue(i, tx2) == [txs EXCEPT ![i] = tx2]

\* the transaction has run and has no request left: its operation has its
\* results, the collections of its scope are still locked
Finished(tx) == tx.started /\ tx.reqs = <<>>

\* an aborted transaction restores the collections of its scope
Rollback(tx) ==
  IF tx.started
  THEN [n \in DOMAIN store |-> IF n \in tx.scope THEN tx.before[n] ELSE store[n]]
  ELSE store

(***************************************************************************)
(* The schema of the database: its version, the object stores it has, the  *)
(* form of the rows of the bookmarks store, and the normalized bookmark     *)
(* rows {id, chatId, messageId, createdAt} a version-1 database holds.      *)
(* store.bookmarks holds the denormalized rows.  Ghost fields: from is the  *)
(* version the session found, runs counts the completed runs of            *)
(* onupgradeneeded, aborted the interrupted ones, dropped keeps the rows    *)
(* that went with the old bookmarks store.                                  *)
(***************************************************************************)
DB_VERSION == 2

StoreNames == {"chats", "messages", "bookmarks", "metadata"}

SchemaAt(version, names, form, old) ==
  [version |-> version, names |-> names, form |-> form, old |-> old,
   from |-> version, runs |-> 0, aborted |-> 0, dropped |-> {}]

CurrentSchema == SchemaAt(DB_VERSION, StoreNames, "denormalized", {})

\* a variant that creates the bookmarks store only when there is none
BookmarksKept(schema, oldVersion) ==
  IF "bookmarks" \in schema.names
  THEN [form |-> schema.form, old |-> schema.old, dropped |-> {}]
  ELSE [form |-> "denormalized", old |-> {}, dropped |-> {}]

\* the bookmarks store after onupgradeneeded (111-136): deleted and created
\* anew when oldVersion < 2, created when missing otherwise
BookmarksUpgraded(schema, oldVersion) ==
  IF oldVersion < 2
  THEN [form |-> "denormalized", old |-> {}, dropped |-> schema.old]
  ELSE BookmarksKept(schema, oldVersion)

\* request.onupgradeneeded (86-143): the schema it leaves
onupgradeneeded(schema, oldVersion) ==
  LET b == BookmarksUpgraded(schema, oldVersion)
  IN  [schema EXCEPT !.version = DB_VERSION,
                     !.names = @ \cup {"chats"} \cup {"messages"}
                                 \cup {"bookmarks"} \cup {"metadata"},
                     !.form = b.form,
                     !.old = b.old,
                     !.dropped = b.dropped,
                     !.runs = @ + 1]

(***************************************************************************)
(* The connection handle: initNormalizedDB (67-145).                       *)
(***************************************************************************)
\* callers make a bounded number of calls
CanCall == Len(ops) < MaxCalls

\* the cached handle is a connection that has been closed: initNormalizedDB
\* resolves with it (68-72) and database.transaction(...) throws
\* InvalidStateError inside the try of every part, whose catch block runs
RECURSIVE TransactionThrows(_, _, _)
TransactionThrows(O, k, parts) ==
  IF parts = <<>> THEN O
  ELSE TransactionThrows(
         [O EXCEPT ![k] = OpenFailed([@ EXCEPT !.failed = TRUE], Head(parts))],
         k, Tail(parts))

\* a call of an exported operation: the synchronous part up to
\* `await initNormalizedDB()`.  With the handle set the promise is already
\* resolved and the continuations run in call order; with db = null every
\* part places its own indexedDB.open request
InvokeOp(kind, a, parts) ==
  /\ LET k == Len(ops) + 1
         O == Append(ops, NewOp(kind, a, {parts[i] : i \in 1..Len(parts)}))
     IN  CASE db = "open" ->
                /\ Adopt(ArriveAll(txs, O, k, parts, now))
                /\ opens' = opens
           [] db = "closed" ->
                /\ ops' = TransactionThrows(O, k, parts)
                /\ opens' = opens
                /\ txs' = txs
           [] OTHER ->
                /\ opens' = opens \o [i \in 1..Len(parts) |-> [op |-> k, part |-> parts[i]]]
                /\ ops' = O
                /\ txs' = txs
  /\ UNCHANGED <<db, conns, store, now, fails, parserVars>>

\* a call made by the user interface
Invoke(kind, a, parts) ==
  /\ InvokeOp(kind, a, parts)
  /\ UNCHANGED appVars

\* request.onsuccess of indexedDB.open (79-83)
OpenSuccess ==
  /\ opens # <<>>
  /\ idb.version = DB_VERSION
  /\ Adopt(Arrive(txs, ops, Head(opens).op, Head(opens).part, now))
  /\ opens' = Tail(opens)
  /\ db' = "open"
  /\ conns' = conns + 1
  /\ UNCHANGED <<store, now, fails, parserVars, appVars>>

\* indexedDB.open(DB_NAME, DB_VERSION) on a database of a lower version:
\* onupgradeneeded runs in the versionchange transaction, which completes;
\* the open request succeeds in a later step
UpgradeNeeded ==
  /\ opens # <<>>
  /\ idb.version < DB_VERSION
  /\ idb' = onupgradeneeded(idb, idb.version)
  /\ store' = [store EXCEPT !.bookmarks = IF idb.version < 2 THEN {} ELSE @]
  /\ UNCHANGED <<db, conns, opens, txs, ops, now, fails, parserVars,
                 legacy, localStorage, mig, hook, perf>>

\* the versionchange transaction is interrupted: the database keeps its
\* version, its stores and its rows, and the open request fires onerror (78)
UpgradeAborted ==
  /\ opens # <<>>
  /\ idb.version < DB_VERSION
  /\ fails < MaxFail
  /\ idb' = [idb EXCEPT !.aborted = @ + 1]
  /\ LET h == Head(opens)
     IN  ops' = [ops EXCEPT ![h.op] = OpenFailed([@ EXCEPT !.failed = TRUE], h.part)]
  /\ opens' = Tail(opens)
  /\ fails' = fails + 1
  /\ UNCHANGED <<db, conns, txs, store, now, parserVars,
                 legacy, localStorage, mig, hook, perf>>

\* request.onerror of indexedDB.open (78)
OpenError ==
  /\ opens # <<>>
  /\ fails < MaxFail
  /\ LET h == Head(opens)
     IN  ops' = [ops EXCEPT ![h.op] = OpenFailed([@ EXCEPT !.failed = TRUE], h.part)]
  /\ opens' = Tail(opens)
  /\ fails' = fails + 1
  /\ UNCHANGED <<db, conns, txs, store, now, parserVars, appVars>>

\* the browser closes the connection while nothing is in flight (the close
\* event of IDBDatabase); the module sets no onclose handler and keeps the
\* handle in db (80)
ConnectionClosed ==
  /\ db = "open"
  /\ opens = <<>>
  /\ txs = <<>>
  /\ db' = "closed"
  /\ UNCHANGED <<conns, opens, txs, store, ops, now, fails, parserVars, appVars>>

\* a transaction without pending requests commits and leaves the queue
Commit(i) ==
  /\ i \in DOMAIN txs
  /\ Startable(i)
  /\ txs[i].reqs = <<>>
  /\ txs' = RemoveAt(txs, i)
  /\ UNCHANGED <<db, conns, opens, store, ops, now, fails, parserVars, appVars>>

\* time passes: Date.now() and new Date() give a later value
Tick ==
  /\ now < MaxClock
  /\ now' = now + 1
  /\ UNCHANGED <<db, conns, opens, txs, store, ops, fails, parserVars, appVars>>

(***************************************************************************)
(* Request handlers.                                                       *)
(***************************************************************************)
\* the effect of a put or delete request on the collections
ApplyRequest(st, req) ==
  CASE req.t = "put" -> [st EXCEPT ![req.store] = Put(@, req.rec)]
    [] req.t = "delete" -> [st EXCEPT ![req.store] = Delete(@, req.key)]
    [] OTHER -> st

\* the head request of transaction i succeeded, the transaction goes on
\* with requests reqs and accumulator acc, the operation becomes o2
Succeed(i, reqs, acc, o2) ==
  LET tx == Begin(txs[i])
  IN  /\ store' = ApplyRequest(store, Head(tx.reqs))
      /\ txs' = Continue(i, [tx EXCEPT !.reqs = reqs, !.acc = acc])
      /\ ops' = [ops EXCEPT ![tx.op] = o2]
      /\ UNCHANGED <<db, conns, opens, now, fails, parserVars, appVars>>

\* a request of transaction i fires onerror: the handlers reject their
\* promise and do not call preventDefault, so the transaction aborts
RequestError(i) ==
  /\ i \in DOMAIN txs
  /\ Startable(i)
  /\ txs[i].reqs # <<>>
  /\ fails < MaxFail
  /\ store' = Rollback(txs[i])
  /\ txs' = RemoveAt(txs, i)
  /\ ops' = [ops EXCEPT ![txs[i].op] =
               RequestFailed([@ EXCEPT !.failed = TRUE,
                                       !.ghost = [before |-> Begin(txs[i]).before,
                                                  after |-> store']],
                             txs[i].part)]
  /\ fails' = fails + 1
  /\ UNCHANGED <<db, conns, opens, now, parserVars, appVars>>

\* saveChatMetadata: store.put(chatRecord) succeeded (176-180)
SaveChatMetadataPut(i) ==
  /\ Ready(i, {"saveChat"}, "meta", "put")
  /\ Succeed(i, <<>>, <<>>, Resolved(ops[txs[i].op], "meta", NoOut))

\* saveChatMessages: one store.put(record) succeeded (244-252)
SaveChatMessagesPut(i) ==
  /\ Ready(i, {"saveChat"}, "msgs", "put")
  /\ LET rest == Tail(txs[i].reqs)
         o    == ops[txs[i].op]
     IN  Succeed(i, rest, <<>>, IF rest = <<>> THEN Resolved(o, "msgs", NoOut) ELSE o)

\* loadChatMetadata: store.get(chatId) succeeded (297-301); ghost: the
\* message rows of the chat at the moment its metadata is read
LoadChatMetadataGet(i) ==
  /\ Ready(i, {"loadChat"}, "meta", "get")
  /\ LET o   == ops[txs[i].op]
         key == Head(txs[i].reqs).key
     IN  Succeed(i, <<>>, <<>>,
                 Resolved([o EXCEPT !.ghost = IndexGetAll(store.messages, key)],
                          "meta", Get(store.chats, key)))

\* loadChatMessages: index.getAll(range) succeeded (364-386)
LoadChatMessagesGetAll(i) ==
  /\ Ready(i, {"loadChat", "loadChatMessages"}, "msgs", "getRange")
  /\ LET req == Head(txs[i].reqs)
         o   == ops[txs[i].op]
     IN  Succeed(i, <<>>, <<>>,
                 Resolved(o, "msgs",
                          LoadChatMessagesResult(
                            RangeGetAll(store.messages, req.chatId, req.lo, req.hi),
                            o.a.limit, o.a.offset)))

\* the delete requests deleteChat places for the rows getAll delivered,
\* in the order of the result (642-648, 660-666)
DeleteRequests(storeName, rows) ==
  LET keys == KeyOrder({r.id : r \in rows})
  IN  [j \in 1..Len(keys) |-> [t |-> "delete", store |-> storeName, key |-> keys[j]]]

\* the request deleteChat places next: the bookmarks of the chat (655-658)
ListBookmarks(chatId) ==
  <<[t |-> "getAllIdx", store |-> STORES.BOOKMARKS, chatId |-> chatId]>>

\* deleteChat: chatStore.delete(chatId) succeeded (630-640)
DeleteChatMetadata(i) ==
  /\ Ready(i, {"deleteChat"}, "main", "delete")
  /\ Head(txs[i].reqs).store = STORES.CHATS
  /\ LET o == ops[txs[i].op]
     IN  Succeed(i, <<[t |-> "getAllIdx", store |-> STORES.MESSAGES,
                       chatId |-> o.a.chatId]>>, <<>>, o)

\* deleteChat: messageIndex.getAll(chatId) succeeded (641-650)
DeleteChatListMessages(i) ==
  /\ Ready(i, {"deleteChat"}, "main", "getAllIdx")
  /\ Head(txs[i].reqs).store = STORES.MESSAGES
  /\ LET o    == ops[txs[i].op]
         dels == DeleteRequests(STORES.MESSAGES,
                                IndexGetAll(store.messages, o.a.chatId))
     IN  Succeed(i, IF dels = <<>> THEN ListBookmarks(o.a.chatId) ELSE dels, <<>>, o)

\* deleteChat: one messageStore.delete(message.id) succeeded (644-649)
DeleteChatMessage(i) ==
  /\ Ready(i, {"deleteChat"}, "main", "delete")
  /\ Head(txs[i].reqs).store = STORES.MESSAGES
  /\ LET o    == ops[txs[i].op]
         rest == Tail(txs[i].reqs)
     IN  Succeed(i, IF rest = <<>> THEN ListBookmarks(o.a.chatId) ELSE rest, <<>>, o)

\* deleteChat: bookmarkIndex.getAll(chatId) succeeded (659-668)
DeleteChatListBookmarks(i) ==
  /\ Ready(i, {"deleteChat"}, "main", "getAllIdx")
  /\ Head(txs[i].reqs).store = STORES.BOOKMARKS
  /\ LET o    == ops[txs[i].op]
         dels == DeleteRequests(STORES.BOOKMARKS,
                                IndexGetAll(store.bookmarks, o.a.chatId))
     IN  Succeed(i, dels, <<>>, IF dels = <<>> THEN Resolved(o, "main", NoOut) ELSE o)

\* deleteChat: one bookmarkStore.delete(bookmark.id) succeeded (662-667)
DeleteChatBookmark(i) ==
  /\ Ready(i, {"deleteChat"}, "main", "delete")
  /\ Head(txs[i].reqs).store = STORES.BOOKMARKS
  /\ LET o    == ops[txs[i].op]
         rest == Tail(txs[i].reqs)
     IN  Succeed(i, rest, <<>>, IF rest = <<>> THEN Resolved(o, "main", NoOut) ELSE o)

\* saveBookmark: store.put(bookmark) succeeded (464-468)
SaveBookmarkPut(i) ==
  /\ Ready(i, {"saveBookmark", "saveBookmarkLegacy"}, "save", "put")
  /\ Succeed(i, <<>>, <<>>, Resolved(ops[txs[i].op], "save", NoOut))

\* removeBookmark: store.delete(messageId) succeeded (490-494)
RemoveBookmarkDelete(i) ==
  /\ Ready(i, {"removeBookmark"}, "main", "delete")
  /\ Succeed(i, <<>>, <<>>, Resolved(ops[txs[i].op], "main", NoOut))

\* loadBookmarks: bookmarkStore.getAll() succeeded (518-548)
LoadBookmarksGetAll(i) ==
  /\ Ready(i, {"loadBookmarks"}, "main", "getAll")
  /\ Succeed(i, <<>>, <<>>,
             Resolved(ops[txs[i].op], "main", LoadBookmarksResult(store.bookmarks)))

\* loadAllChatMetadata: store.getAll() succeeded (326-333)
LoadAllChatMetadataGetAll(i) ==
  /\ Ready(i, {"loadAllChatMetadata"}, "main", "getAll")
  /\ Succeed(i, <<>>, <<>>,
             Resolved(ops[txs[i].op], "main", LoadAllChatMetadataResult(store.chats)))

\* isMessageBookmarked: store.get(messageId) succeeded (571-572)
IsMessageBookmarkedGet(i) ==
  /\ Ready(i, {"isMessageBookmarked"}, "main", "get")
  /\ Succeed(i, <<>>, <<>>,
             Resolved(ops[txs[i].op], "main",
                      IsBookmarkedIn(store.bookmarks, Head(txs[i].reqs).key)))

\* getBookmarkStatus: one store.get(messageId) succeeded (598-607)
GetBookmarkStatusGet(i) ==
  /\ Ready(i, {"getBookmarkStatus"}, "main", "get")
  /\ LET req      == Head(txs[i].reqs)
         rest     == Tail(txs[i].reqs)
         o        == ops[txs[i].op]
         statuses == Append(txs[i].acc,
                            <<req.key, IsBookmarkedIn(store.bookmarks, req.key)>>)
     IN  Succeed(i, rest, statuses,
                 IF rest = <<>> THEN Resolved(o, "main", FromEntries(statuses)) ELSE o)

\* getMessageAndChatForBookmark: messageStore.get(messageId) succeeded (704-708)
GetMessageForBookmark(i) ==
  /\ Ready(i, {"saveBookmarkLegacy"}, "snap", "get")
  /\ Head(txs[i].reqs).store = STORES.MESSAGES
  /\ Succeed(i, Tail(txs[i].reqs),
             <<Get(store.messages, Head(txs[i].reqs).key)>>, ops[txs[i].op])

\* getMessageAndChatForBookmark: chatStore.get(chatId) succeeded, both
\* reads are in (709-729); saveBookmarkLegacy then throws or goes on to
\* saveBookmark, whose transaction is created in the same task (742-747)
GetChatForBookmark(i) ==
  /\ Ready(i, {"saveBookmarkLegacy"}, "snap", "get")
  /\ Head(txs[i].reqs).store = STORES.CHATS
  /\ LET k       == txs[i].op
         chatRow == Get(store.chats, Head(txs[i].reqs).key)
         data    == BookmarkData(txs[i].acc[1], chatRow)
         O       == [ops EXCEPT ![k].vals.data = data,
                                ![k].ghost = [message |-> txs[i].acc[1],
                                              chat |-> chatRow]]
         T       == Continue(i, [Begin(txs[i]) EXCEPT !.reqs = <<>>])
     IN  IF data.found
         THEN Adopt(Arrive(T, O, k, "save", now))
         ELSE /\ txs' = T
              /\ ops' = [O EXCEPT ![k] = Settle(@, "error", NoOut, FALSE)]
  /\ UNCHANGED <<db, conns, opens, store, now, fails, parserVars, appVars>>

(***************************************************************************)
(* The exported operations, as their callers may invoke them.              *)
(***************************************************************************)
ChatNameOf(chatId) == IF chatId = "c1" THEN "Alice & Bob" ELSE "Family"

\* the message lists a Chat may carry: the first n messages of the transcript
MessageLists ==
  {[i \in 1..n |-> MessageOf(MsgIdSeq[i])] : n \in 0..Cardinality(MsgIds)}

Chats ==
  {[id |-> c, name |-> ChatNameOf(c), messages |-> ms] :
     c \in ChatIds, ms \in MessageLists}

\* the id lists a caller asks getBookmarkStatus about
IdLists == {<<>>} \cup {<<m>> : m \in MsgIds}
           \cup {<<m1, m2>> : m1 \in MsgIds, m2 \in MsgIds}

CallSaveChat ==
  \E chat \in Chats :
    /\ CanCall
    /\ Invoke("saveChat", [chat |-> chat], <<"meta", "msgs">>)

CallLoadChat ==
  \E c \in ChatIds :
    /\ CanCall
    /\ Invoke("loadChat", [chatId |-> c, limit |-> Undefined, offset |-> Undefined],
              <<"meta", "msgs">>)

\* the pages a caller asks for; chat c1 has three rows at most
Limits == {Undefined, 1, 2}
Offsets == {Undefined, 1, 3}

CallLoadChatMessages ==
  \E limit \in Limits, offset \in Offsets :
    /\ CanCall
    /\ Invoke("loadChatMessages",
              [chatId |-> "c1", limit |-> limit, offset |-> offset], <<"msgs">>)

CallLoadAllChatMetadata ==
  /\ CanCall
  /\ Invoke("loadAllChatMetadata", [none |-> 0], <<"main">>)

\* imports of chat c1 whose messages carry the other date and time texts
DatedLists ==
  {<<MessageOf("m5"), MessageOf("m7")>>,
   <<MessageOf("m6"), MessageOf("m3")>>,
   <<MessageOf("m4"), MessageOf("m2")>>}

CallSaveDatedChat ==
  \E ms \in DatedLists :
    /\ CanCall
    /\ Invoke("saveChat",
              [chat |-> [id |-> "c1", name |-> ChatNameOf("c1"), messages |-> ms]],
              <<"meta", "msgs">>)

CallDeleteChat ==
  \E c \in ChatIds :
    /\ CanCall
    /\ Invoke("deleteChat", [chatId |-> c], <<"main">>)

CallSaveBookmark ==
  \E m \in MsgIds, c \in ChatIds, d \in MessageDatas :
    /\ CanCall
    /\ Invoke("saveBookmark",
              [messageId |-> m, chatId |-> c, messageData |-> d,
               chatName |-> ChatNameOf(c)],
              <<"save">>)

CallRemoveBookmark ==
  \E m \in MsgIds :
    /\ CanCall
    /\ Invoke("removeBookmark", [messageId |-> m], <<"main">>)

CallLoadBookmarks ==
  /\ CanCall
  /\ Invoke("loadBookmarks", [none |-> 0], <<"main">>)

CallIsMessageBookmarked ==
  \E m \in MsgIds :
    /\ CanCall
    /\ Invoke("isMessageBookmarked", [messageId |-> m], <<"main">>)

CallGetBookmarkStatus ==
  \E ids \in IdLists :
    /\ CanCall
    /\ Invoke("getBookmarkStatus", [messageIds |-> ids], <<"main">>)

CallSaveBookmarkLegacy ==
  \E m \in MsgIds, c \in ChatIds :
    /\ CanCall
    /\ Invoke("saveBookmarkLegacy", [messageId |-> m, chatId |-> c], <<"snap">>)

(***************************************************************************)
(* Initial states: the module has just been loaded (db = null, 61); the    *)
(* database holds what earlier sessions left in it: chats saved by         *)
(* saveChat and bookmarks of their messages saved by saveBookmarkLegacy.   *)
(***************************************************************************)
\* the tick at which the earlier session wrote its rows
Earlier == -1

\* the messages with the ids of a list
MessagesOfIds(ids) == [j \in DOMAIN ids |-> MessageOf(ids[j])]

StoreOf(cs, owner, bm) ==
  [chats |-> {ChatRecord([id |-> c, name |-> ChatNameOf(c),
                          messages |-> MessagesOfIds(KeyOrder({m \in MsgIds : owner[m] = c}))]) :
                c \in cs},
   messages |-> {MessageRecord(owner[m], MessageOf(m), Earlier) :
                   m \in {x \in MsgIds : owner[x] \in cs}},
   bookmarks |-> {BookmarkRecord(m, owner[m], MessageDataOf(MessageOf(m)),
                                 ChatNameOf(owner[m]), Earlier) : m \in bm}]

\* the chats at the start and who owns each message: both messages in c1,
\* one in each chat, only m1 imported, nothing imported; c2 is there in
\* the first two
InitOwners ==
  {<<ChatIds, [m \in MsgIds |-> "c1"]>>,
   <<ChatIds, [m \in MsgIds |-> IF m = "m1" THEN "c1" ELSE "c2"]>>,
   <<{"c1"}, [m \in MsgIds |-> IF m = "m1" THEN "c1" ELSE "none"]>>,
   <<{"c1"}, [m \in MsgIds |-> "none"]>>}

\* any of the imported messages is bookmarked
InitStores ==
  {StoreOf(x[1][1], x[1][2], x[2]) :
     x \in {y \in InitOwners \X (SUBSET MsgIds) :
              \A m \in y[2] : y[1][2][m] \in ChatIds}}

\* one message in each chat, any of them bookmarked
\* the imports the chat operations start from: two messages in c1, one of
\* them bookmarked; one bookmarked message in each chat; c1 alone with one
\* message; c1 alone and empty
ChatInitStores ==
  {StoreOf(ChatIds, [m \in MsgIds |-> "c1"], {"m1"}),
   StoreOf(ChatIds, [m \in MsgIds |-> IF m = "m1" THEN "c1" ELSE "c2"], MsgIds),
   StoreOf({"c1"}, [m \in MsgIds |-> IF m = "m1" THEN "c1" ELSE "none"], {}),
   StoreOf({"c1"}, [m \in MsgIds |-> "none"], {})}

BookmarkInitStores ==
  {StoreOf(ChatIds, [m \in MsgIds |-> IF m = "m1" THEN "c1" ELSE "c2"], bm) :
     bm \in SUBSET MsgIds}

\* the caller's side of a parse before parseWhatsAppChat is called: the
\* content handed over, the promise, the calls of resolve and reject, the
\* calls of onProgress, the messages of the worker handled so far
NoCall ==
  [content |-> <<>>, isString |-> TRUE, promise |-> "none", result |-> <<>>,
   error |-> <<>>, settles |-> 0, terminated |-> FALSE, onProgress |-> <<>>,
   seen |-> 0]

ParserIdle ==
  /\ lines = <<>>
  /\ cursor = 0
  /\ parsed = <<>>
  /\ participants = <<>>
  /\ events = <<>>
  /\ wpc = "idle"
  /\ host = NoCall

\* the other databases of the origin, by name: the legacy database of the
\* indexedDb module ('whatsapp-viewer-db', chatParser.ts 474) and the two
\* databases the migration detector opens (dbMigration.ts 17, 59)
LEGACY_DB_NAME == "whatsapp-viewer-db"
OLD_DATA_DB == "WhatsAppViewerDB"
NEW_DATA_DB == "WhatsAppViewerNormalized"
OtherDbNames == {LEGACY_DB_NAME, OLD_DATA_DB, NEW_DATA_DB}

\* a database that does not exist, and one as openDB of the indexedDb
\* module leaves it (484-497): the store 'chats' with the chats in key order
AbsentDb == [exists |-> FALSE, names |-> {}, chats |-> <<>>]
LegacyDb(chats) == [exists |-> TRUE, names |-> {"chats"}, chats |-> chats]

\* no other database exists
NoLegacy == [n \in OtherDbNames |-> AbsentDb]

\* localStorage without legacy bookmarks and without the migration flag
NoLocalStorage == [bookmarks |-> <<>>, flag |-> FALSE]

\* the application has not started yet: no run of initializeChats, no
\* migration procedure called; last is the data the last start left
\* migrateBookmarkData has not been called: legacyBookmarks, the index of
\* the bookmark at hand, the saveBookmarkLegacy call awaited, the result
NoBookmarkMigration ==
  [pc |-> "idle", legacyBookmarks |-> <<>>, i |-> 0, op |-> 0,
   success |-> FALSE, migratedBookmarks |-> 0]

\* migrateChatData has not been called: the two counters, the chats of the
\* batch not saved yet, the saveChat call awaited, the result
NoChatMigration ==
  [pc |-> "idle", migratedChats |-> 0, totalMessages |-> 0, batch |-> <<>>,
   op |-> 0, success |-> FALSE, migratedMessages |-> 0]

NoMigration ==
  [pc |-> "idle", starts |-> <<>>, last |-> <<>>, bm |-> NoBookmarkMigration,
   ch |-> NoChatMigration]

\* the state of useChats (part_007 32-35) with no chat listed and none
\* loaded, the removeChat call in flight and how the last one ended
NoChats ==
  [chatList |-> <<>>, loadedChats |-> {}, error |-> "null", pc |-> "idle",
   chatId |-> "none", op |-> 0, outcome |-> "none"]

\* the bookmark hook is not mounted: the state of useBookmarks (part_009
\* 25-30), the call initializeBookmarks awaits, its legacyBookmarks and the
\* index of the one at hand, the calls of addBookmark and deleteBookmark in
\* flight, and, as history, the number of calls that went on to the store,
\* the number that returned at once, and what the initializations of the
\* page loads did; useChats is the state of the chat hook
NoHook ==
  [pc |-> "unmounted", bookmarks |-> <<>>, isLoading |-> TRUE, error |-> "null",
   pendingOperations |-> {}, op |-> 0, legacyBookmarks |-> <<>>, i |-> 0,
   calls |-> {}, issued |-> 0, suppressed |-> 0, loads |-> <<>>,
   useChats |-> NoChats]

\* the performance monitor after construction (401-403); ended is history:
\* the calls of instrumented operations whose finally block has run
NoMetrics == [metrics |-> <<>>, timers |-> {}, recorded |-> 0, ended |-> {}]

\* the parts of the application the specification at hand leaves alone
AppIdle ==
  /\ idb = CurrentSchema
  /\ legacy = NoLegacy
  /\ localStorage = NoLocalStorage
  /\ mig = NoMigration
  /\ hook = NoHook
  /\ perf = NoMetrics

StoreIdle ==
  /\ db = "null"
  /\ conns = 0
  /\ opens = <<>>
  /\ txs = <<>>
  /\ ops = <<>>
  /\ now = 0
  /\ fails = 0

StoreInit ==
  /\ StoreIdle
  /\ store \in InitStores
  /\ ParserIdle
  /\ AppIdle

\* positions in the list of live transactions
TxSlots == 1..(2 * MaxCalls)

(***************************************************************************)
(* SpecChats: callers save, load and delete chats concurrently.            *)
(***************************************************************************)
ChatsNext ==
  \/ OpenSuccess
  \/ OpenError
  \/ \E i \in TxSlots : RequestError(i)
  \/ \E i \in TxSlots : Commit(i)
  \/ CallSaveChat
  \/ CallLoadChat
  \/ CallDeleteChat
  \/ \E i \in TxSlots : SaveChatMetadataPut(i)
  \/ \E i \in TxSlots : SaveChatMessagesPut(i)
  \/ \E i \in TxSlots : LoadChatMetadataGet(i)
  \/ \E i \in TxSlots : LoadChatMessagesGetAll(i)
  \/ \E i \in TxSlots : DeleteChatMetadata(i)
  \/ \E i \in TxSlots : DeleteChatListMessages(i)
  \/ \E i \in TxSlots : DeleteChatMessage(i)
  \/ \E i \in TxSlots : DeleteChatListBookmarks(i)
  \/ \E i \in TxSlots : DeleteChatBookmark(i)

ChatsInit ==
  /\ StoreIdle
  /\ ParserIdle
  /\ AppIdle
  /\ store \in ChatInitStores

SpecChats == ChatsInit /\ [][ChatsNext]_vars

(***************************************************************************)
(* SpecBookmarks: callers save, remove and read bookmarks concurrently     *)
(* while the clock advances.                                               *)
(***************************************************************************)
BookmarksNext ==
  \/ OpenSuccess
  \/ OpenError
  \/ Tick
  \/ \E i \in TxSlots : RequestError(i)
  \/ \E i \in TxSlots : Commit(i)
  \/ CallSaveBookmark
  \/ CallRemoveBookmark
  \/ CallLoadBookmarks
  \/ CallIsMessageBookmarked
  \/ CallGetBookmarkStatus
  \/ \E i \in TxSlots : SaveBookmarkPut(i)
  \/ \E i \in TxSlots : RemoveBookmarkDelete(i)
  \/ \E i \in TxSlots : LoadBookmarksGetAll(i)
  \/ \E i \in TxSlots : IsMessageBookmarkedGet(i)
  \/ \E i \in TxSlots : GetBookmarkStatusGet(i)

BookmarksInit ==
  /\ StoreIdle
  /\ store \in BookmarkInitStores
  /\ ParserIdle
  /\ AppIdle

SpecBookmarks == BookmarksInit /\ [][BookmarksNext]_vars

(***************************************************************************)
(* SpecLegacy: callers bookmark through saveBookmarkLegacy while chats are *)
(* deleted.                                                                *)
(***************************************************************************)
LegacyNext ==
  \/ OpenSuccess
  \/ OpenError
  \/ Tick
  \/ \E i \in TxSlots : RequestError(i)
  \/ \E i \in TxSlots : Commit(i)
  \/ CallSaveBookmarkLegacy
  \/ CallDeleteChat
  \/ \E i \in TxSlots : GetMessageForBookmark(i)
  \/ \E i \in TxSlots : GetChatForBookmark(i)
  \/ \E i \in TxSlots : SaveBookmarkPut(i)
  \/ \E i \in TxSlots : DeleteChatMetadata(i)
  \/ \E i \in TxSlots : DeleteChatListMessages(i)
  \/ \E i \in TxSlots : DeleteChatMessage(i)
  \/ \E i \in TxSlots : DeleteChatListBookmarks(i)
  \/ \E i \in TxSlots : DeleteChatBookmark(i)

SpecLegacy == StoreInit /\ [][LegacyNext]_vars

(***************************************************************************)
(* SpecMessages: chats whose messages carry any date and time text are     *)
(* saved, and lists are read, in pages and whole, while the clock          *)
(* advances.                                                               *)
(***************************************************************************)
\* a store with both chats and the messages that owner gives to them
MessageStoreOf(owner) ==
  [chats |-> {ChatRecord([id |-> c, name |-> ChatNameOf(c),
                          messages |-> MessagesOfIds(KeyOrder({m \in DOMAIN owner : owner[m] = c}))]) :
                c \in ChatIds},
   messages |-> {MessageRecord(owner[m], MessageOf(m), Earlier) :
                   m \in {x \in DOMAIN owner : owner[x] \in ChatIds}},
   bookmarks |-> {}]

\* what earlier sessions left: c1 with a message of 2023, one dated 2099
\* and one dated 1969; c1 with three messages of the past, two of them
\* stamped with the time of their import; no messages at all
MessageInitStores ==
  {MessageStoreOf([m \in {"m1", "m2", "m3", "m4"} |->
                     IF m = "m2" THEN "c2" ELSE "c1"]),
   MessageStoreOf([m \in {"m1", "m2", "m5", "m6"} |->
                     IF m = "m6" THEN "c2" ELSE "c1"]),
   MessageStoreOf([m \in {"m1"} |-> "none"])}

MessagesNext ==
  \/ OpenSuccess
  \/ OpenError
  \/ Tick
  \/ \E i \in TxSlots : RequestError(i)
  \/ \E i \in TxSlots : Commit(i)
  \/ CallSaveDatedChat
  \/ CallLoadChat
  \/ CallLoadChatMessages
  \/ CallLoadAllChatMetadata
  \/ CallLoadBookmarks
  \/ \E i \in TxSlots : SaveChatMetadataPut(i)
  \/ \E i \in TxSlots : SaveChatMessagesPut(i)
  \/ \E i \in TxSlots : LoadChatMetadataGet(i)
  \/ \E i \in TxSlots : LoadChatMessagesGetAll(i)
  \/ \E i \in TxSlots : LoadAllChatMetadataGetAll(i)
  \/ \E i \in TxSlots : LoadBookmarksGetAll(i)

MessagesInit ==
  /\ StoreIdle
  /\ ParserIdle
  /\ AppIdle
  /\ store \in MessageInitStores

SpecMessages == MessagesInit /\ [][MessagesNext]_vars

(***************************************************************************)
(* SpecWrites: the four write operations run concurrently and a request    *)
(* or the opening of the store may fail.                                   *)
(***************************************************************************)
WritesNext ==
  \/ OpenSuccess
  \/ OpenError
  \/ \E i \in TxSlots : RequestError(i)
  \/ \E i \in TxSlots : Commit(i)
  \/ CallSaveChat
  \/ CallSaveBookmark
  \/ CallRemoveBookmark
  \/ CallDeleteChat
  \/ \E i \in TxSlots : SaveChatMetadataPut(i)
  \/ \E i \in TxSlots : SaveChatMessagesPut(i)
  \/ \E i \in TxSlots : SaveBookmarkPut(i)
  \/ \E i \in TxSlots : RemoveBookmarkDelete(i)
  \/ \E i \in TxSlots : DeleteChatMetadata(i)
  \/ \E i \in TxSlots : DeleteChatListMessages(i)
  \/ \E i \in TxSlots : DeleteChatMessage(i)
  \/ \E i \in TxSlots : DeleteChatListBookmarks(i)
  \/ \E i \in TxSlots : DeleteChatBookmark(i)

WritesInit ==
  /\ StoreIdle
  /\ ParserIdle
  /\ AppIdle
  /\ store = StoreOf(ChatIds, [m \in MsgIds |-> IF m = "m1" THEN "c1" ELSE "c2"],
                     MsgIds)

SpecWrites == WritesInit /\ [][WritesNext]_vars

(***************************************************************************)
(* SpecConnection: bookmark and chat-list operations while the browser may *)
(* close the connection between them.                                      *)
(***************************************************************************)
ConnectionNext ==
  \/ OpenSuccess
  \/ ConnectionClosed
  \/ \E i \in TxSlots : Commit(i)
  \/ CallSaveBookmark
  \/ CallRemoveBookmark
  \/ CallLoadBookmarks
  \/ CallLoadAllChatMetadata
  \/ \E i \in TxSlots : SaveBookmarkPut(i)
  \/ \E i \in TxSlots : RemoveBookmarkDelete(i)
  \/ \E i \in TxSlots : LoadBookmarksGetAll(i)
  \/ \E i \in TxSlots : LoadAllChatMetadataGetAll(i)

SpecConnection == BookmarksInit /\ [][ConnectionNext]_vars

(***************************************************************************)
(* SpecUpgrade: the first operations of a session on a database that is    *)
(* new (version 0), at version 1 or at version 2.                          *)
(***************************************************************************)
\* a bookmark row of a version-1 database
NormalizedBookmark(id, messageId, chatId) ==
  [id |-> id, chatId |-> chatId, messageId |-> messageId, createdAt |-> Earlier]

\* chat c1 with message m1, as an earlier session imported it; m2 was never
\* imported
ImportedStore(bm) ==
  StoreOf({"c1"}, [m \in MsgIds |-> IF m = "m1" THEN "c1" ELSE "none"], bm)

\* the schema and the rows a session may find
UpgradeInits ==
  {<<SchemaAt(0, {}, "none", {}), EmptyStore>>}
  \cup {<<SchemaAt(1, names, "normalized", old), ImportedStore({})>> :
          names \in {StoreNames, StoreNames \ {"metadata"}},
          old \in SUBSET {NormalizedBookmark("b1", "m1", "c1"),
                          NormalizedBookmark("b2", "m2", "c1")}}
  \cup {<<CurrentSchema, ImportedStore(bm)>> : bm \in SUBSET {"m1"}}

UpgradeNext ==
  \/ UpgradeNeeded
  \/ UpgradeAborted
  \/ OpenSuccess
  \/ OpenError
  \/ \E i \in TxSlots : Commit(i)
  \/ CallLoadChat
  \/ CallSaveBookmark
  \/ CallLoadBookmarks
  \/ \E i \in TxSlots : LoadChatMetadataGet(i)
  \/ \E i \in TxSlots : LoadChatMessagesGetAll(i)
  \/ \E i \in TxSlots : SaveBookmarkPut(i)
  \/ \E i \in TxSlots : LoadBookmarksGetAll(i)

UpgradeInit ==
  /\ StoreIdle
  /\ ParserIdle
  /\ \E x \in UpgradeInits : idb = x[1] /\ store = x[2]
  /\ legacy = NoLegacy
  /\ localStorage = NoLocalStorage
  /\ mig = NoMigration
  /\ hook = NoHook
  /\ perf = NoMetrics

SpecUpgrade == UpgradeInit /\ [][UpgradeNext]_vars

(***************************************************************************)
(* Migration from the legacy database (src/src/utils/dbMigration.ts) and   *)
(* the start of the application (useChats.initializeChats).                *)
(***************************************************************************)
\* indexedDB.open(name, 1) with no onupgradeneeded handler (17, 59): a
\* database that does not exist is created without object stores
OpenedAtVersion1(d) ==
  IF d.exists THEN d ELSE [exists |-> TRUE, names |-> {}, chats |-> <<>>]

\* hasOldData / hasNewData (13-94): false without a 'chats' store,
\* otherwise count() > 0
HasData(dbs, name) ==
  LET d == OpenedAtVersion1(dbs[name])
  IN  IF "chats" \notin d.names THEN FALSE ELSE Len(d.chats) > 0

hasOldData(dbs) == HasData(dbs, OLD_DATA_DB)
hasNewData(dbs) == HasData(dbs, NEW_DATA_DB)

\* return hasOld && !hasNew (105)
NeedsMigration(hasOld, hasNew) == hasOld /\ ~hasNew

\* needsMigrationFromOldDb (99-110)
needsMigrationFromOldDb(dbs) == NeedsMigration(hasOldData(dbs), hasNewData(dbs))

\* the databases after the two opens of the detector
AfterDetector(dbs) ==
  [dbs EXCEPT ![OLD_DATA_DB] = OpenedAtVersion1(@),
              ![NEW_DATA_DB] = OpenedAtVersion1(@)]

\* the legacy chats: c1 with message m1, c2 with message m2
LegacyChatSeq ==
  <<[id |-> "c1", name |-> ChatNameOf("c1"), messages |-> <<MessageOf("m1")>>],
    [id |-> "c2", name |-> ChatNameOf("c2"), messages |-> <<MessageOf("m2")>>]>>

\* the rows saveChat(chat) writes (saveChatMetadata 176, saveChatMessages 244)
RECURSIVE PutMessages(_, _, _, _)
PutMessages(rows, chatId, messages, t) ==
  IF messages = <<>> THEN rows
  ELSE PutMessages(Put(rows, MessageRecord(chatId, Head(messages), t)),
                   chatId, Tail(messages), t)

SaveChatRows(st, chat, t) ==
  [st EXCEPT !.chats = Put(@, ChatRecord(chat)),
             !.messages = PutMessages(@, chat.id, chat.messages, t)]

\* migrateChatData (115-156) when every read and every saveChat succeeds
RECURSIVE MigrateChats(_, _, _)
MigrateChats(st, chats, t) ==
  IF chats = <<>> THEN st
  ELSE MigrateChats(SaveChatRows(st, Head(chats), t), Tail(chats), t)

\* number of starts of the application in one behaviour
MaxStarts == 3

\* the data the detector is meant to look at: the chats of the legacy
\* database and the chat rows of the current one
DetectorData == <<legacy[LEGACY_DB_NAME].chats, store.chats>>

\* the page is loaded and initializeChats runs up to the end of the
\* migration branch (part_007 57-95): the detector, and when it answers
\* true performFullMigration, with no legacy bookmarks in localStorage, and
\* cleanupOldDatabase, which may fail.  The connection of the page before
\* is gone; ops stays as the record of the calls made so far.
Start ==
  /\ Len(mig.starts) < MaxStarts
  /\ \A i \in DOMAIN ops : ops[i].pc = "done"
  /\ opens = <<>>
  /\ txs = <<>>
  /\ localStorage.bookmarks = <<>>
  /\ LET needs == needsMigrationFromOldDb(legacy)
         dbs   == AfterDetector(legacy)
         chats == legacy[LEGACY_DB_NAME].chats
     IN  \E cleaned \in BOOLEAN :
           /\ cleaned => needs
           /\ store' = IF needs THEN MigrateChats(store, chats, now) ELSE store
           /\ legacy' = IF needs
                        THEN [dbs EXCEPT ![LEGACY_DB_NAME] =
                                IF cleaned THEN AbsentDb ELSE LegacyDb(chats)]
                        ELSE dbs
           /\ mig' = [mig EXCEPT
                       !.starts = Append(@, [needs |-> needs,
                                             old |-> Len(chats) > 0,
                                             new |-> store.chats # {},
                                             success |-> needs,
                                             same |-> mig.last = DetectorData]),
                       !.last = <<legacy'[LEGACY_DB_NAME].chats, store'.chats>>]
  /\ db' = "null"
  /\ UNCHANGED <<conns, opens, txs, ops, now, fails, parserVars, idb,
                 localStorage, hook, perf>>

(***************************************************************************)
(* SpecStarts: the application is started several times; between the      *)
(* starts the user imports chats.  The origin may hold the legacy database *)
(* of the indexedDb module, and a database 'WhatsAppViewerDB' with a chat  *)
(* left by an earlier deployment: no code of this repository writes it,    *)
(* the detector reads it.                                                  *)
(***************************************************************************)
StartsNext ==
  \/ Start
  \/ OpenSuccess
  \/ \E i \in TxSlots : Commit(i)
  \/ CallSaveChat
  \/ \E i \in TxSlots : SaveChatMetadataPut(i)
  \/ \E i \in TxSlots : SaveChatMessagesPut(i)

StartsInit ==
  /\ StoreIdle
  /\ ParserIdle
  /\ idb = CurrentSchema
  /\ store \in {EmptyStore, ImportedStore({})}
  /\ \E n \in 0..Len(LegacyChatSeq), exists, older \in BOOLEAN :
       /\ n > 0 => exists
       /\ legacy = [NoLegacy EXCEPT
                      ![LEGACY_DB_NAME] =
                        IF exists THEN LegacyDb(SubSeq(LegacyChatSeq, 1, n))
                        ELSE AbsentDb,
                      ![OLD_DATA_DB] =
                        IF older THEN LegacyDb(SubSeq(LegacyChatSeq, 1, 1))
                        ELSE AbsentDb]
  /\ localStorage = NoLocalStorage
  /\ mig = NoMigration
  /\ hook = NoHook
  /\ perf = NoMetrics

SpecStarts == StartsInit /\ [][StartsNext]_vars

(***************************************************************************)
(* migrateBookmarkData (dbMigration.ts 161-192): the bookmarks of          *)
(* localStorage are saved one after the other through saveBookmarkLegacy.  *)
(***************************************************************************)
\* a bookmark of localStorage: the id of the message and the chat
LegacyBookmark(m, c) == [id |-> m, chatId |-> c]

\* the lists of bookmarks localStorage may hold
LegacyBookmarkLists ==
  {<<>>,
   <<LegacyBookmark("m1", "c1")>>,
   <<LegacyBookmark("m2", "c1")>>,
   <<LegacyBookmark("m1", "c1"), LegacyBookmark("m2", "c1")>>,
   <<LegacyBookmark("m2", "c1"), LegacyBookmark("m1", "c1")>>,
   <<LegacyBookmark("m1", "c1"), LegacyBookmark("m2", "c2")>>}

\* await saveBookmarkLegacy(bookmark.id, bookmark.chatId) (176)
AwaitSaveBookmarkLegacy(bookmark) ==
  InvokeOp("saveBookmarkLegacy",
           [messageId |-> bookmark.id, chatId |-> bookmark.chatId], <<"snap">>)

\* migrateBookmarkData is called: loadLegacyBookmarks (165), the early
\* return for an empty list (167-169), the first turn of the loop (175-176)
MigrateBookmarkDataCall ==
  /\ mig.bm.pc = "idle"
  /\ LET legacyBookmarks == localStorage.bookmarks
     IN  IF Len(legacyBookmarks) = 0
         THEN /\ mig' = [mig EXCEPT !.bm.pc = "done", !.bm.success = TRUE,
                                    !.bm.migratedBookmarks = 0]
              /\ UNCHANGED storeVars
         ELSE /\ mig' = [mig EXCEPT !.bm.pc = "await",
                                    !.bm.legacyBookmarks = legacyBookmarks,
                                    !.bm.i = 1,
                                    !.bm.op = Len(ops) + 1]
              /\ AwaitSaveBookmarkLegacy(legacyBookmarks[1])
  /\ UNCHANGED <<parserVars, idb, legacy, localStorage, hook, perf>>

\* the saveBookmarkLegacy awaited has settled: resolved, the loop goes on
\* or ends with success and the length of the list (179-183); rejected, the
\* catch block returns success: false (184-191)
MigrateBookmarkDataResume ==
  /\ mig.bm.pc = "await"
  /\ ops[mig.bm.op].pc = "done"
  /\ LET legacyBookmarks == mig.bm.legacyBookmarks
         i == mig.bm.i
     IN  IF ops[mig.bm.op].status # "ok"
         THEN /\ mig' = [mig EXCEPT !.bm.pc = "done", !.bm.success = FALSE,
                                    !.bm.migratedBookmarks = 0]
              /\ UNCHANGED storeVars
         ELSE IF i < Len(legacyBookmarks)
         THEN /\ mig' = [mig EXCEPT !.bm.i = i + 1, !.bm.op = Len(ops) + 1]
              /\ AwaitSaveBookmarkLegacy(legacyBookmarks[i + 1])
         ELSE /\ mig' = [mig EXCEPT !.bm.pc = "done", !.bm.success = TRUE,
                                    !.bm.migratedBookmarks = Len(legacyBookmarks)]
              /\ UNCHANGED storeVars
  /\ UNCHANGED <<parserVars, idb, legacy, localStorage, hook, perf>>

(***************************************************************************)
(* SpecBookmarkMigration: migrateBookmarkData is called once on a database *)
(* that holds chat c1 with message m1, with m2 as well or not, and chat c2 *)
(* or not.                                                                 *)
(***************************************************************************)
BookmarkMigrationStores ==
  {StoreOf(ChatIds, [m \in MsgIds |-> "c1"], {}),
   StoreOf({"c1"}, [m \in MsgIds |-> "c1"], {}),
   ImportedStore({})}

BookmarkMigrationNext ==
  \/ MigrateBookmarkDataCall
  \/ MigrateBookmarkDataResume
  \/ OpenSuccess
  \/ Tick
  \/ \E i \in TxSlots : Commit(i)
  \/ \E i \in TxSlots : GetMessageForBookmark(i)
  \/ \E i \in TxSlots : GetChatForBookmark(i)
  \/ \E i \in TxSlots : SaveBookmarkPut(i)

BookmarkMigrationInit ==
  /\ StoreIdle
  /\ ParserIdle
  /\ idb = CurrentSchema
  /\ store \in BookmarkMigrationStores
  /\ legacy = NoLegacy
  /\ \E bs \in LegacyBookmarkLists : localStorage = [NoLocalStorage EXCEPT !.bookmarks = bs]
  /\ mig = NoMigration
  /\ hook = NoHook
  /\ perf = NoMetrics

SpecBookmarkMigration == BookmarkMigrationInit /\ [][BookmarkMigrationNext]_vars

(***************************************************************************)
(* migrateChatData (dbMigration.ts 115-156): the chats of the legacy       *)
(* database are read in batches and saved through saveChat.                *)
(***************************************************************************)
\* chats per batch (123), scaled down
BATCH_SIZE == 1

\* allResults.slice(offset, offset + limit) (chatParser.ts 664)
Slice(all, offset, limit) ==
  SubSeq(all, offset + 1, IF offset + limit < Len(all) THEN offset + limit ELSE Len(all))

\* await saveChat(chat) (133)
AwaitSaveChat(chat) == InvokeOp("saveChat", [chat |-> chat], <<"meta", "msgs">>)

\* the loop has left the while (138-149)
ChatDataMigrated(m) ==
  [m EXCEPT !.ch.pc = "done", !.ch.success = TRUE,
            !.ch.migratedMessages = m.ch.totalMessages]

\* migrateChatData is called; up to the first await (118-126)
MigrateChatDataCall ==
  /\ mig.ch.pc = "idle"
  /\ mig' = [mig EXCEPT !.ch.pc = "load"]
  /\ UNCHANGED <<storeVars, parserVars, idb, legacy, localStorage, hook, perf>>

\* loadChatsBatch(migratedChats, BATCH_SIZE) resolves with the slice of
\* getAll (651-672); an empty batch ends the loop (127), otherwise saveChat
\* is called for its first chat.  openDB creates the database if there is
\* none (484-497).
LoadChatsBatch ==
  /\ mig.ch.pc = "load"
  /\ LET d     == IF legacy[LEGACY_DB_NAME].exists THEN legacy[LEGACY_DB_NAME]
                  ELSE LegacyDb(<<>>)
         batch == Slice(d.chats, mig.ch.migratedChats, BATCH_SIZE)
     IN  /\ legacy' = [legacy EXCEPT ![LEGACY_DB_NAME] = d]
         /\ IF Len(batch) = 0
            THEN /\ mig' = ChatDataMigrated(mig)
                 /\ UNCHANGED storeVars
            ELSE /\ mig' = [mig EXCEPT !.ch.pc = "await", !.ch.batch = batch,
                                       !.ch.op = Len(ops) + 1]
                 /\ AwaitSaveChat(batch[1])
  /\ UNCHANGED <<parserVars, idb, localStorage, hook, perf>>

\* the read of loadChatsBatch fails (openDB or getAll): the catch block
\* returns [] (673-676) and the loop ends (127)
LoadChatsBatchFails ==
  /\ mig.ch.pc = "load"
  /\ fails < MaxFail
  /\ fails' = fails + 1
  /\ mig' = ChatDataMigrated(mig)
  /\ UNCHANGED <<db, conns, opens, txs, store, ops, now, parserVars, idb, legacy,
                 localStorage, hook, perf>>

\* the saveChat awaited has settled: rejected, the catch block returns
\* success: false (150-152); resolved, the counters go up (134-135) and the
\* next chat of the batch is saved or the next batch is read
MigrateChatDataResume ==
  /\ mig.ch.pc = "await"
  /\ ops[mig.ch.op].pc = "done"
  /\ LET chat == Head(mig.ch.batch)
         rest == Tail(mig.ch.batch)
         m    == [mig EXCEPT !.ch.totalMessages = @ + Len(chat.messages),
                             !.ch.migratedChats = @ + 1,
                             !.ch.batch = rest]
     IN  IF ops[mig.ch.op].status # "ok"
         THEN /\ mig' = [mig EXCEPT !.ch.pc = "done", !.ch.success = FALSE,
                                    !.ch.migratedChats = 0,
                                    !.ch.migratedMessages = 0]
              /\ UNCHANGED storeVars
         ELSE IF rest # <<>>
         THEN /\ mig' = [m EXCEPT !.ch.op = Len(ops) + 1]
              /\ AwaitSaveChat(Head(rest))
         ELSE /\ mig' = [m EXCEPT !.ch.pc = "load"]
              /\ UNCHANGED storeVars
  /\ UNCHANGED <<parserVars, idb, legacy, localStorage, hook, perf>>

(***************************************************************************)
(* SpecChatMigration: migrateChatData is called once on an empty current   *)
(* database; the legacy database holds up to two chats; requests may fail. *)
(***************************************************************************)
ChatMigrationNext ==
  \/ MigrateChatDataCall
  \/ LoadChatsBatch
  \/ LoadChatsBatchFails
  \/ MigrateChatDataResume
  \/ OpenSuccess
  \/ \E i \in TxSlots : RequestError(i)
  \/ \E i \in TxSlots : Commit(i)
  \/ \E i \in TxSlots : SaveChatMetadataPut(i)
  \/ \E i \in TxSlots : SaveChatMessagesPut(i)

ChatMigrationInit ==
  /\ StoreIdle
  /\ ParserIdle
  /\ idb = CurrentSchema
  /\ store = EmptyStore
  /\ \E n \in 0..Len(LegacyChatSeq), exists \in BOOLEAN :
       /\ n > 0 => exists
       /\ legacy = [NoLegacy EXCEPT ![LEGACY_DB_NAME] =
                      IF exists THEN LegacyDb(SubSeq(LegacyChatSeq, 1, n))
                      ELSE AbsentDb]
  /\ localStorage = NoLocalStorage
  /\ mig = NoMigration
  /\ hook = NoHook
  /\ perf = NoMetrics

SpecChatMigration == ChatMigrationInit /\ [][ChatMigrationNext]_vars

(***************************************************************************)
(* performFullMigration (dbMigration.ts 197-237): migrateChatData and      *)
(* migrateBookmarkData are started in one Promise.all.                     *)
(***************************************************************************)
\* Promise.all([migrateChatData(), migrateBookmarkData()]) (206-209): each
\* call runs up to its first await, the first as MigrateChatDataCall, the
\* second as MigrateBookmarkDataCall
PerformFullMigration ==
  /\ mig.ch.pc = "idle"
  /\ mig.bm.pc = "idle"
  /\ LET legacyBookmarks == localStorage.bookmarks
         m == [mig EXCEPT !.ch.pc = "load"]
     IN  IF Len(legacyBookmarks) = 0
         THEN /\ mig' = [m EXCEPT !.bm.pc = "done", !.bm.success = TRUE,
                                  !.bm.migratedBookmarks = 0]
              /\ UNCHANGED storeVars
         ELSE /\ mig' = [m EXCEPT !.bm.pc = "await",
                                  !.bm.legacyBookmarks = legacyBookmarks,
                                  !.bm.i = 1,
                                  !.bm.op = Len(ops) + 1]
              /\ AwaitSaveBookmarkLegacy(legacyBookmarks[1])
  /\ UNCHANGED <<parserVars, idb, legacy, localStorage, hook, perf>>

(***************************************************************************)
(* SpecFullMigration: performFullMigration is called once on a current    *)
(* database that is empty or holds chat c1 already; the legacy database    *)
(* holds up to two chats and localStorage bookmarks of their messages; no  *)
(* request fails.                                                          *)
(***************************************************************************)
FullMigrationNext ==
  \/ PerformFullMigration
  \/ LoadChatsBatch
  \/ MigrateChatDataResume
  \/ MigrateBookmarkDataResume
  \/ OpenSuccess
  \/ \E i \in TxSlots : Commit(i)
  \/ \E i \in TxSlots : SaveChatMetadataPut(i)
  \/ \E i \in TxSlots : SaveChatMessagesPut(i)
  \/ \E i \in TxSlots : GetMessageForBookmark(i)
  \/ \E i \in TxSlots : GetChatForBookmark(i)
  \/ \E i \in TxSlots : SaveBookmarkPut(i)

FullMigrationInit ==
  /\ StoreIdle
  /\ ParserIdle
  /\ idb = CurrentSchema
  /\ store \in {EmptyStore, ImportedStore({})}
  /\ \E n \in 1..Len(LegacyChatSeq) :
       legacy = [NoLegacy EXCEPT ![LEGACY_DB_NAME] = LegacyDb(SubSeq(LegacyChatSeq, 1, n))]
  /\ \E bs \in LegacyBookmarkLists : localStorage = [NoLocalStorage EXCEPT !.bookmarks = bs]
  /\ mig = NoMigration
  /\ hook = NoHook
  /\ perf = NoMetrics

SpecFullMigration == FullMigrationInit /\ [][FullMigrationNext]_vars

(***************************************************************************)
(* PerformanceMonitor (src/src/utils/bookmarkStorage.ts 400-446).  A       *)
(* sample is its number in recording order; recorded is the number of      *)
(* samples recorded so far.                                                *)
(***************************************************************************)
MAX_METRICS == 1000

\* a variant that never rotates
NotRotated(metrics) == metrics

\* this.metrics.splice(0, 100) when the length exceeds MAX_METRICS (435-438)
Rotated(metrics) ==
  IF Len(metrics) > MAX_METRICS THEN SubSeq(metrics, 101, Len(metrics))
  ELSE metrics

\* startTimer (408-410)
startTimer(p, operation) == [p EXCEPT !.timers = @ \cup {operation}]

\* endTimer (415-446): without a timer nothing is recorded
endTimer(p, operation) ==
  IF operation \notin p.timers THEN p
  ELSE [p EXCEPT !.metrics = Rotated(Append(p.metrics, p.recorded + 1)),
                 !.timers = p.timers \ {operation},
                 !.recorded = p.recorded + 1]

\* the operations timed, and the number of samples in one behaviour
Operations == {"addBookmark", "migrateChatData"}
MaxSamples == 1250

StartTimer(operation) ==
  /\ perf.recorded < MaxSamples
  /\ perf' = startTimer(perf, operation)
  /\ UNCHANGED <<storeVars, parserVars, idb, legacy, localStorage, mig, hook>>

EndTimer(operation) ==
  /\ perf' = endTimer(perf, operation)
  /\ UNCHANGED <<storeVars, parserVars, idb, legacy, localStorage, mig, hook>>

PerfNext ==
  \/ \E operation \in Operations : StartTimer(operation)
  \/ \E operation \in Operations : EndTimer(operation)

PerfInit ==
  /\ StoreIdle
  /\ store = EmptyStore
  /\ ParserIdle
  /\ AppIdle

SpecPerf == PerfInit /\ [][PerfNext]_vars

(***************************************************************************)
(* The timers of the storage operations (normalizedDb.ts): startTimer in   *)
(* the first task of the call (445, 483), endTimer in the finally block    *)
(* (473, 499), which runs once the awaited request has settled.            *)
(***************************************************************************)
\* the finally block of a call that has settled runs as a microtask, before
\* the task of the next call
FinallyBlocksRun == \A k \in DOMAIN ops : ops[k].pc = "done" => k \in perf.ended

TimedSaveBookmark ==
  \E m \in MsgIds, c \in ChatIds, d \in MessageDatas :
    /\ CanCall
    /\ FinallyBlocksRun
    /\ perf' = startTimer(perf, "saveBookmark")
    /\ InvokeOp("saveBookmark",
                [messageId |-> m, chatId |-> c, messageData |-> d,
                 chatName |-> ChatNameOf(c)],
                <<"save">>)
    /\ UNCHANGED <<idb, legacy, localStorage, mig, hook>>

TimedRemoveBookmark ==
  \E m \in MsgIds :
    /\ CanCall
    /\ FinallyBlocksRun
    /\ perf' = startTimer(perf, "removeBookmark")
    /\ InvokeOp("removeBookmark", [messageId |-> m], <<"main">>)
    /\ UNCHANGED <<idb, legacy, localStorage, mig, hook>>

\* the finally block of call k (472-475, 498-501)
Finally(k) ==
  /\ k \in DOMAIN ops
  /\ ops[k].pc = "done"
  /\ k \notin perf.ended
  /\ perf' = [endTimer(perf, ops[k].kind) EXCEPT !.ended = @ \cup {k}]
  /\ UNCHANGED <<storeVars, parserVars, idb, legacy, localStorage, mig, hook>>

(***************************************************************************)
(* SpecTimers: callers save and remove bookmarks, two calls at a time at   *)
(* most; requests may fail.                                                *)
(***************************************************************************)
TimersNext ==
  \/ TimedSaveBookmark
  \/ TimedRemoveBookmark
  \/ \E k \in 1..MaxCalls : Finally(k)
  \/ OpenSuccess
  \/ OpenError
  \/ \E i \in TxSlots : RequestError(i)
  \/ \E i \in TxSlots : Commit(i)
  \/ \E i \in TxSlots : SaveBookmarkPut(i)
  \/ \E i \in TxSlots : RemoveBookmarkDelete(i)

SpecTimers == BookmarksInit /\ [][TimersNext]_vars

(***************************************************************************)
(* The bookmark hook (src/unnamed/part_009, useBookmarks):                 *)
(* initializeBookmarks.                                                    *)
(***************************************************************************)
\* the ids of a list of bookmarks
BookmarkIds(list) == [n \in DOMAIN list |-> list[n].id]

\* page loads in one behaviour
MaxLoads == 3

\* what the initialization at hand has done so far
ThisLoad(h, field, val) == [h EXCEPT !.loads[Len(h.loads)][field] = val]

\* the finally block (86-89) after setBookmarks(list)
Initialized(h, list) ==
  [h EXCEPT !.pc = "ready", !.bookmarks = list, !.isLoading = FALSE]

\* the catch block (80-85): setError and the fallback to the legacy list
InitializeFailed(h) ==
  Initialized([ThisLoad(h, "failed", TRUE) EXCEPT !.error = "Failed to load bookmarks"],
              BookmarkIds(localStorage.bookmarks))

\* the effect runs after the mount: up to await loadBookmarks() (41-45)
InitializeBookmarks ==
  /\ hook.pc = "unmounted"
  /\ Len(hook.loads) < MaxLoads
  /\ hook' = [hook EXCEPT
                !.pc = "loading", !.isLoading = TRUE, !.error = "null",
                !.op = Len(ops) + 1,
                !.loads = Append(@, [flag |-> localStorage.flag,
                                     readLegacy |-> FALSE, saves |-> 0,
                                     failed |-> FALSE])]
  /\ InvokeOp("loadBookmarks", [none |-> 0], <<"main">>)
  /\ UNCHANGED <<parserVars, idb, legacy, localStorage, mig, perf>>

\* loadBookmarks() has settled (45-79): bookmarks found; none and the flag
\* set; none and no flag, then the legacy list is read and either its first
\* bookmark is saved or the flag is set
InitializeLoaded ==
  /\ hook.pc = "loading"
  /\ ops[hook.op].pc = "done"
  /\ LET indexedBookmarks == ops[hook.op].out
         legacyBookmarks  == localStorage.bookmarks
         read             == ThisLoad(hook, "readLegacy", TRUE)
     IN  IF ops[hook.op].status # "ok"
         THEN /\ hook' = InitializeFailed(hook)
              /\ UNCHANGED <<storeVars, localStorage>>
         ELSE IF Len(indexedBookmarks) # 0
         THEN /\ hook' = Initialized(hook, BookmarkIds(indexedBookmarks))
              /\ UNCHANGED <<storeVars, localStorage>>
         ELSE IF localStorage.flag
         THEN /\ hook' = Initialized(hook, <<>>)
              /\ UNCHANGED <<storeVars, localStorage>>
         ELSE IF Len(legacyBookmarks) > 0
         THEN /\ hook' = [ThisLoad(read, "saves", 1) EXCEPT
                           !.pc = "migrating",
                           !.legacyBookmarks = legacyBookmarks,
                           !.i = 1, !.op = Len(ops) + 1]
              /\ AwaitSaveBookmarkLegacy(legacyBookmarks[1])
              /\ UNCHANGED localStorage
         ELSE /\ hook' = Initialized(read, <<>>)
              /\ localStorage' = [localStorage EXCEPT !.flag = TRUE]
              /\ UNCHANGED storeVars
  /\ UNCHANGED <<parserVars, idb, legacy, mig, perf>>

\* the saveBookmarkLegacy of the loop has settled (57-62): rejected, the
\* catch block runs; resolved, the next bookmark is saved or the bookmarks
\* are loaded again
InitializeSaved ==
  /\ hook.pc = "migrating"
  /\ ops[hook.op].pc = "done"
  /\ IF ops[hook.op].status # "ok"
     THEN /\ hook' = InitializeFailed(hook)
          /\ UNCHANGED storeVars
     ELSE IF hook.i < Len(hook.legacyBookmarks)
     THEN /\ hook' = [ThisLoad(hook, "saves", hook.i + 1) EXCEPT
                       !.i = hook.i + 1, !.op = Len(ops) + 1]
          /\ AwaitSaveBookmarkLegacy(hook.legacyBookmarks[hook.i + 1])
     ELSE /\ hook' = [hook EXCEPT !.pc = "reloading", !.op = Len(ops) + 1]
          /\ InvokeOp("loadBookmarks", [none |-> 0], <<"main">>)
  /\ UNCHANGED <<parserVars, idb, legacy, localStorage, mig, perf>>

\* the second loadBookmarks() has settled (62-65): setBookmarks,
\* clearLegacyBookmarks (localStorage.ts 154-160) and the flag
InitializeReloaded ==
  /\ hook.pc = "reloading"
  /\ ops[hook.op].pc = "done"
  /\ IF ops[hook.op].status # "ok"
     THEN /\ hook' = InitializeFailed(hook)
          /\ UNCHANGED localStorage
     ELSE /\ hook' = Initialized(hook, BookmarkIds(ops[hook.op].out))
          /\ localStorage' = [bookmarks |-> <<>>, flag |-> TRUE]
  /\ UNCHANGED <<storeVars, parserVars, idb, legacy, mig, perf>>

\* the page is loaded again: the module state and the state of the hook
\* are gone, the database and localStorage stay
Reload ==
  /\ hook.pc = "ready"
  /\ hook.calls = {}
  /\ opens = <<>>
  /\ txs = <<>>
  /\ hook' = [NoHook EXCEPT !.loads = hook.loads]
  /\ db' = "null"
  /\ UNCHANGED <<conns, opens, txs, store, ops, now, fails, parserVars, idb,
                 legacy, localStorage, mig, perf>>

(***************************************************************************)
(* The bookmark hook: addBookmark (95-126) and deleteBookmark (131-155).   *)
(***************************************************************************)
\* calls of addBookmark and deleteBookmark in one behaviour
MaxHookCalls == 3

\* a variant in which no operation is ever seen as pending
NeverPending(h, messageId) == FALSE

\* pendingOperations.current.has(messageId) (98, 133)
Pending(h, messageId) == messageId \in h.pendingOperations

\* prev.filter(b => b.id !== messageId) (118, 139)
RECURSIVE Without(_, _)
Without(list, messageId) ==
  IF list = <<>> THEN <<>>
  ELSE IF Head(list) = messageId THEN Without(Tail(list), messageId)
  ELSE <<Head(list)>> \o Without(Tail(list), messageId)

Includes(list, messageId) == \E n \in DOMAIN list : list[n] = messageId

HookCallable ==
  /\ hook.pc # "unmounted"
  /\ hook.issued + hook.suppressed < MaxHookCalls

\* the call returns at once (98-101, 133-136)
Suppressed ==
  /\ hook' = [hook EXCEPT !.suppressed = @ + 1]
  /\ UNCHANGED <<storeVars, perf>>

\* addBookmark up to await saveBookmarkLegacy (96-114); a call remembers the
\* list it found and whether another mutation was in flight
addBookmark(m) ==
    /\ HookCallable
    /\ IF Pending(hook, m) THEN Suppressed
       ELSE /\ perf' = startTimer(perf, "addBookmark")
            /\ hook' = [hook EXCEPT
                          !.pendingOperations = @ \cup {m},
                          !.bookmarks = IF Includes(@, m) THEN @ ELSE <<m>> \o @,
                          !.calls = @ \cup {[kind |-> "add", id |-> m,
                                             op |-> Len(ops) + 1,
                                             removedBookmark |-> FALSE,
                                             before |-> hook.bookmarks,
                                             alone |-> hook.calls = {}]},
                          !.issued = @ + 1]
            /\ AwaitSaveBookmarkLegacy(LegacyBookmark(m, "c1"))
    /\ UNCHANGED <<parserVars, idb, legacy, localStorage, mig>>

AddBookmark == \E m \in MsgIds : addBookmark(m)

\* saveBookmarkLegacy has settled: the catch block takes the bookmark out
\* of the list again (115-118), the finally block ends the timer and
\* deletes the id from pendingOperations (119-123)
AddBookmarkSettled ==
  \E call \in hook.calls :
    /\ call.kind = "add"
    /\ ops[call.op].pc = "done"
    /\ LET h == IF ops[call.op].status = "ok" THEN hook
                ELSE [hook EXCEPT !.error = "Failed to add bookmark",
                                  !.bookmarks = Without(@, call.id)]
       IN  hook' = [h EXCEPT !.pendingOperations = @ \ {call.id},
                             !.calls = @ \ {call}]
    /\ perf' = endTimer(perf, "addBookmark")
    /\ UNCHANGED <<storeVars, parserVars, idb, legacy, localStorage, mig>>

\* deleteBookmark up to await removeBookmark (132-141)
deleteBookmark(m) ==
    /\ HookCallable
    /\ IF Pending(hook, m) THEN Suppressed
       ELSE /\ hook' = [hook EXCEPT
                          !.pendingOperations = @ \cup {m},
                          !.bookmarks = Without(@, m),
                          !.calls = @ \cup {[kind |-> "delete", id |-> m,
                                             op |-> Len(ops) + 1,
                                             removedBookmark |->
                                               Includes(hook.bookmarks, m),
                                             before |-> hook.bookmarks,
                                             alone |-> hook.calls = {}]},
                          !.issued = @ + 1]
            /\ InvokeOp("removeBookmark", [messageId |-> m], <<"main">>)
            /\ UNCHANGED perf
    /\ UNCHANGED <<parserVars, idb, legacy, localStorage, mig>>

DeleteBookmark == \E m \in MsgIds : deleteBookmark(m)

\* toggleBookmark (160-171): deleteBookmark for a message that is in the
\* list, addBookmark for one that is not
ToggleBookmark ==
  \E m \in MsgIds :
    IF Includes(hook.bookmarks, m) THEN deleteBookmark(m) ELSE addBookmark(m)

\* removeBookmark has settled: the catch block puts removedBookmark back
\* (142-149), the finally block deletes the id from pendingOperations
DeleteBookmarkSettled ==
  \E call \in hook.calls :
    /\ call.kind = "delete"
    /\ ops[call.op].pc = "done"
    /\ LET h == IF ops[call.op].status = "ok" THEN hook
                ELSE [hook EXCEPT
                        !.error = "Failed to remove bookmark",
                        !.bookmarks = IF call.removedBookmark
                                      THEN <<call.id>> \o @ ELSE @]
       IN  hook' = [h EXCEPT !.pendingOperations = @ \ {call.id},
                             !.calls = @ \ {call}]
    /\ UNCHANGED <<storeVars, parserVars, idb, legacy, localStorage, mig, perf>>

(***************************************************************************)
(* SpecHookInit: the page is loaded several times; localStorage holds      *)
(* legacy bookmarks of messages that are in the database or not.           *)
(***************************************************************************)
HookInitNext ==
  \/ InitializeBookmarks
  \/ InitializeLoaded
  \/ InitializeSaved
  \/ InitializeReloaded
  \/ Reload
  \/ OpenSuccess
  \/ \E i \in TxSlots : Commit(i)
  \/ \E i \in TxSlots : LoadBookmarksGetAll(i)
  \/ \E i \in TxSlots : GetMessageForBookmark(i)
  \/ \E i \in TxSlots : GetChatForBookmark(i)
  \/ \E i \in TxSlots : SaveBookmarkPut(i)

HookInitInit ==
  /\ StoreIdle
  /\ ParserIdle
  /\ idb = CurrentSchema
  /\ store \in BookmarkMigrationStores
  /\ legacy = NoLegacy
  /\ \E bs \in LegacyBookmarkLists : localStorage = [NoLocalStorage EXCEPT !.bookmarks = bs]
  /\ mig = NoMigration
  /\ hook = NoHook
  /\ perf = NoMetrics

SpecHookInit == HookInitInit /\ [][HookInitNext]_vars

(***************************************************************************)
(* SpecHook: the hook is mounted on a database whose legacy bookmarks have *)
(* been migrated; the user adds and removes bookmarks of m1, which is in   *)
(* the database, and m2, which is not; requests may fail.                  *)
(***************************************************************************)
HookNext ==
  \/ InitializeBookmarks
  \/ InitializeLoaded
  \/ AddBookmark
  \/ AddBookmarkSettled
  \/ DeleteBookmark
  \/ DeleteBookmarkSettled
  \/ OpenSuccess
  \/ \E i \in TxSlots : RequestError(i)
  \/ \E i \in TxSlots : Commit(i)
  \/ \E i \in TxSlots : LoadBookmarksGetAll(i)
  \/ \E i \in TxSlots : GetMessageForBookmark(i)
  \/ \E i \in TxSlots : GetChatForBookmark(i)
  \/ \E i \in TxSlots : SaveBookmarkPut(i)
  \/ \E i \in TxSlots : RemoveBookmarkDelete(i)

HookInit ==
  /\ StoreIdle
  /\ ParserIdle
  /\ idb = CurrentSchema
  /\ store \in {ImportedStore(bm) : bm \in SUBSET {"m1"}}
  /\ legacy = NoLegacy
  /\ localStorage = [bookmarks |-> <<>>, flag |-> TRUE]
  /\ mig = NoMigration
  /\ hook = NoHook
  /\ perf = NoMetrics

SpecHook == HookInit /\ [][HookNext]_vars

(***************************************************************************)
(* The chat hook (src/unnamed/part_007, useChats): removeChat (217-246).   *)
(***************************************************************************)
\* removeChat up to await deleteChat(chatId) (218-224)
RemoveChat ==
  \E chatId \in ChatIds :
    /\ hook.pc = "ready"
    /\ hook.useChats.pc = "idle"
    /\ Len(ops) < MaxHookCalls
    /\ perf' = startTimer(perf, "removeChat")
    /\ hook' = [hook EXCEPT !.useChats.pc = "await",
                            !.useChats.chatId = chatId,
                            !.useChats.op = Len(ops) + 1]
    /\ InvokeOp("deleteChat", [chatId |-> chatId], <<"main">>)
    /\ UNCHANGED <<idb, legacy, localStorage, mig>>

\* deleteChat has settled: resolved, the chat leaves the chat list and the
\* cache (226-235); rejected, the catch block sets the error and throws
\* again (237-240); the finally block ends the timer (241-244)
RemoveChatSettled ==
  /\ hook.useChats.pc = "await"
  /\ ops[hook.useChats.op].pc = "done"
  /\ LET chatId == hook.useChats.chatId
     IN  hook' = IF ops[hook.useChats.op].status = "ok"
                 THEN [hook EXCEPT !.useChats.pc = "idle",
                                   !.useChats.chatList = Without(@, chatId),
                                   !.useChats.loadedChats = @ \ {chatId},
                                   !.useChats.outcome = "resolved"]
                 ELSE [hook EXCEPT !.useChats.pc = "idle",
                                   !.useChats.error = "Failed to delete chat",
                                   !.useChats.outcome = "rejected"]
  /\ perf' = endTimer(perf, "removeChat")
  /\ UNCHANGED <<storeVars, parserVars, idb, legacy, localStorage, mig>>

(***************************************************************************)
(* SpecRemoveChat: both hooks are mounted on a database with two chats;    *)
(* the chat list shows them, the cache holds any of them, the bookmark     *)
(* hook loads its list; the user removes chats; requests may fail.         *)
(***************************************************************************)
RemoveChatNext ==
  \/ InitializeBookmarks
  \/ InitializeLoaded
  \/ RemoveChat
  \/ RemoveChatSettled
  \/ OpenSuccess
  \/ \E i \in TxSlots : RequestError(i)
  \/ \E i \in TxSlots : Commit(i)
  \/ \E i \in TxSlots : LoadBookmarksGetAll(i)
  \/ \E i \in TxSlots : DeleteChatMetadata(i)
  \/ \E i \in TxSlots : DeleteChatListMessages(i)
  \/ \E i \in TxSlots : DeleteChatMessage(i)
  \/ \E i \in TxSlots : DeleteChatListBookmarks(i)
  \/ \E i \in TxSlots : DeleteChatBookmark(i)

RemoveChatInit ==
  /\ StoreIdle
  /\ ParserIdle
  /\ idb = CurrentSchema
  /\ store \in BookmarkInitStores
  /\ legacy = NoLegacy
  /\ localStorage = [bookmarks |-> <<>>, flag |-> TRUE]
  /\ mig = NoMigration
  /\ \E loaded \in SUBSET ChatIds :
       hook = [NoHook EXCEPT !.useChats.chatList = <<"c1", "c2">>,
                             !.useChats.loadedChats = loaded]
  /\ perf = NoMetrics

SpecRemoveChat == RemoveChatInit /\ [][RemoveChatNext]_vars

(***************************************************************************)
(* SpecToggle: the hook has loaded the bookmarks of a database that holds  *)
(* m1 and m2; the user adds, removes and toggles bookmarks; requests may   *)
(* fail.                                                                   *)
(***************************************************************************)
ToggleNext ==
  \/ InitializeBookmarks
  \/ InitializeLoaded
  \/ hook.pc = "ready" /\ ToggleBookmark
  \/ hook.pc = "ready" /\ AddBookmark
  \/ AddBookmarkSettled
  \/ hook.pc = "ready" /\ DeleteBookmark
  \/ DeleteBookmarkSettled
  \/ OpenSuccess
  \/ \E i \in TxSlots : RequestError(i)
  \/ \E i \in TxSlots : Commit(i)
  \/ \E i \in TxSlots : LoadBookmarksGetAll(i)
  \/ \E i \in TxSlots : GetMessageForBookmark(i)
  \/ \E i \in TxSlots : GetChatForBookmark(i)
  \/ \E i \in TxSlots : SaveBookmarkPut(i)
  \/ \E i \in TxSlots : RemoveBookmarkDelete(i)

ToggleInit ==
  /\ StoreIdle
  /\ ParserIdle
  /\ idb = CurrentSchema
  /\ store \in {StoreOf({"c1"}, [m \in MsgIds |-> "c1"], bm) : bm \in SUBSET MsgIds}
  /\ legacy = NoLegacy
  /\ localStorage = [bookmarks |-> <<>>, flag |-> TRUE]
  /\ mig = NoMigration
  /\ hook = NoHook
  /\ perf = NoMetrics

SpecToggle == ToggleInit /\ [][ToggleNext]_vars

(***************************************************************************)
(* Properties.  A transaction that is Finished has handed its operation    *)
(* its results and has not committed yet: the collections of its scope are *)
(* what the operation left, and tx.before is what it found.                *)
(***************************************************************************)

\* the finished transactions of successful operations of a kind
FinishedOf(kinds) ==
  {i \in DOMAIN txs : /\ Finished(txs[i])
                      /\ ops[txs[i].op].kind \in kinds
                      /\ ops[txs[i].op].pc = "done"
                      /\ ops[txs[i].op].status = "ok"}

\* the rows of store st that belong to chat c
RowsOfChat(st, c) ==
  [chats     |-> {r \in st.chats : r.id = c},
   messages  |-> {r \in st.messages : r.chatId = c},
   bookmarks |-> {r \in st.bookmarks : r.chatId = c}]

\* C1: when deleteChat(C) has completed successfully the chats collection
\* has no row with id C and the messages and bookmarks collections have no
\* row whose chatId is C, and the rows of every other chat are the rows the
\* operation found.
C1_DeleteChatCascades ==
  \A i \in FinishedOf({"deleteChat"}) :
    LET C == ops[txs[i].op].a.chatId
    IN  /\ RowsOfChat(store, C) = RowsOfChat(EmptyStore, C)
        /\ \A c \in ChatIds \ {C} :
             RowsOfChat(store, c) = RowsOfChat(txs[i].before, c)

\* a chat with two messages, one of them bookmarked, has been deleted next
\* to another chat whose row is still there
C1_Witness ==
  \E i \in FinishedOf({"deleteChat"}) :
    LET C == ops[txs[i].op].a.chatId
    IN  /\ Cardinality(RowsOfChat(txs[i].before, C).chats) = 1
        /\ Cardinality(RowsOfChat(txs[i].before, C).messages) = 2
        /\ Cardinality(RowsOfChat(txs[i].before, C).bookmarks) = 1
        /\ \E c \in ChatIds \ {C} : RowsOfChat(store, c).chats # {}

\* the ids of the messages of a list
IdsOf(messages) == {messages[j].id : j \in 1..Len(messages)}

\* C2: deleteChat is all-or-nothing.  No read running next to it sees the
\* chat row without the message rows the chat had or the other way round:
\* with no import under way and no read error swallowed, a chat that
\* loadChat returns has the messages the chat had when its row was read;
\* and a deleteChat that fails leaves the three collections as it found
\* them.
C2_DeleteChatAllOrNothing ==
  /\ \A k \in DOMAIN ops :
       (/\ ops[k].kind = "loadChat"
        /\ ops[k].pc = "done"
        /\ ops[k].out.found
        /\ ~ops[k].degraded
        /\ \A j \in DOMAIN ops : ops[j].kind # "saveChat")
       => IdsOf(ops[k].out.messages) = {r.id : r \in ops[k].ghost}
  /\ \A k \in DOMAIN ops :
       (/\ ops[k].kind = "deleteChat"
        /\ ops[k].pc = "done"
        /\ ops[k].status = "error"
        /\ ops[k].ghost # <<>>)
       => ops[k].ghost.after = ops[k].ghost.before

\* the collections as committed: what a started readwrite transaction has
\* written is not in them before it commits
Committed ==
  [n \in DOMAIN store |->
     LET writers == {i \in DOMAIN txs : /\ txs[i].started
                                        /\ txs[i].mode = "readwrite"
                                        /\ n \in txs[i].scope}
     IN  IF writers = {} THEN store[n]
         ELSE txs[CHOOSE i \in writers : TRUE].before[n]]

\* C3: in every reachable state of the store, also during and after a
\* saveChat whose metadata write or message write fails, the chatId of every
\* row of the messages collection is the id of a row of the chats
\* collection.
C3_MessagesReferenceChats ==
  \A m \in Committed.messages : \E c \in Committed.chats : c.id = m.chatId

\* a bookmark row holds what a saveBookmark call was given
HoldsArguments(r, a) ==
  /\ r.id = a.messageId
  /\ r.chatId = a.chatId
  /\ r.chatName = a.chatName
  /\ r.sender = a.messageData.sender
  /\ r.content = a.messageData.content
  /\ r.date = a.messageData.date
  /\ r.time = a.messageData.time
  /\ r.isSystemMessage = a.messageData.isSystemMessage

\* C4: saveBookmark is an upsert keyed by message id.  When a saveBookmark
\* has succeeded the bookmarks collection has exactly one row with that id,
\* it holds the fields of this call, and the other rows are as they were; no
\* two rows ever share an id, so there are never more rows than distinct
\* bookmarked ids.
C4_SaveBookmarkUpserts ==
  /\ \A i \in FinishedOf({"saveBookmark"}) :
       LET a    == ops[txs[i].op].a
           rows == {r \in store.bookmarks : r.id = a.messageId}
       IN  /\ Cardinality(rows) = 1
           /\ \A r \in rows : HoldsArguments(r, a)
           /\ store.bookmarks \ rows
                = {r \in txs[i].before.bookmarks : r.id # a.messageId}
  /\ Cardinality(store.bookmarks) = Cardinality({r.id : r \in store.bookmarks})

\* a second successful saveBookmark for an id, with other content than the
\* first one, has just written its row
C4_Witness ==
  \E i \in FinishedOf({"saveBookmark"}) :
    \E j \in DOMAIN ops :
      /\ j < txs[i].op
      /\ ops[j].kind = "saveBookmark"
      /\ ops[j].pc = "done"
      /\ ops[j].status = "ok"
      /\ ops[j].a.messageId = ops[txs[i].op].a.messageId
      /\ ops[j].a.messageData # ops[txs[i].op].a.messageData
      /\ \A r \in store.bookmarks : r.id = ops[j].a.messageId
                                      => ~HoldsArguments(r, ops[j].a)

\* the entry of a loadBookmarks result shows row r
ShowsRow(e, r) ==
  /\ e.id = r.id
  /\ e.chatId = r.chatId
  /\ e.chatName = r.chatName
  /\ e.sender = r.sender
  /\ e.content = r.content
  /\ e.date = r.date
  /\ e.time = r.time
  /\ e.isSystemMessage = r.isSystemMessage
  /\ e.isBookmarked

\* C5: the list loadBookmarks resolves to has exactly one entry for each row
\* of the bookmarks collection, showing the fields of that row, and an entry
\* never comes before an entry whose row has a greater createdAt.
C5_LoadBookmarksNewestFirst ==
  \A i \in FinishedOf({"loadBookmarks"}) :
    LET out == ops[txs[i].op].out
    IN  /\ Len(out) = Cardinality(store.bookmarks)
        /\ \A r \in store.bookmarks : \E j \in 1..Len(out) : ShowsRow(out[j], r)
        /\ \A j, k \in 1..Len(out) :
             j < k => \A rj, rk \in store.bookmarks :
                        (rj.id = out[j].id /\ rk.id = out[k].id)
                          => rj.createdAt >= rk.createdAt

\* two bookmarks are listed, and the one with the greater key comes first
\* because it was created later
C5_Witness ==
  \E i \in FinishedOf({"loadBookmarks"}) :
    LET out == ops[txs[i].op].out
    IN  /\ Len(out) = 2
        /\ Rank(out[1].id) > Rank(out[2].id)
        /\ \E r1, r2 \in store.bookmarks :
             /\ r1.id = out[1].id
             /\ r2.id = out[2].id
             /\ r1.createdAt > r2.createdAt

BookmarkPaths ==
  {"loadBookmarks", "isMessageBookmarked", "getBookmarkStatus",
   "saveBookmark", "removeBookmark"}

\* C6: every transaction opened by loadBookmarks, isMessageBookmarked,
\* getBookmarkStatus, saveBookmark or removeBookmark has the bookmarks
\* collection, and nothing else, as its scope, and each of its requests goes
\* to the bookmarks collection.
C6_BookmarkPathsTouchBookmarksOnly ==
  \A i \in DOMAIN txs :
    ops[txs[i].op].kind \in BookmarkPaths
      => /\ txs[i].scope = {STORES.BOOKMARKS}
         /\ \A j \in 1..Len(txs[i].reqs) : txs[i].reqs[j].store = STORES.BOOKMARKS

\* a read path and a write path have their transactions open at a time
C6_Witness ==
  \E i, j \in DOMAIN txs :
    /\ ops[txs[i].op].kind = "getBookmarkStatus"
    /\ Len(txs[i].reqs) = 2
    /\ ops[txs[j].op].kind = "saveBookmark"
    /\ txs[j].reqs # <<>>

\* the saveBookmarkLegacy calls whose snapshot read found the message row
\* or the chat row missing
LegacyMissing ==
  {k \in DOMAIN ops : /\ ops[k].kind = "saveBookmarkLegacy"
                      /\ DOMAIN ops[k].ghost = {"message", "chat"}
                      /\ (ops[k].ghost.message = {} \/ ops[k].ghost.chat = {})}

\* C7: a saveBookmarkLegacy that finds the message row or the chat row
\* missing fails with an error to its caller and writes nothing: it never
\* opens its write transaction, and no bookmark with empty copied fields is
\* in the bookmarks collection.
C7_LegacyRefusesMissingRows ==
  /\ \A k \in LegacyMissing :
       /\ ops[k].pc = "done"
       /\ ops[k].status = "error"
       /\ \A i \in DOMAIN txs : txs[i].op = k => txs[i].part # "save"
  /\ \A b \in store.bookmarks :
       /\ b.sender # ""
       /\ b.content # ""
       /\ b.chatName # ""
       /\ b.date # <<>>
       /\ b.time # <<>>

\* with no injected failure, a call for a stored message and a chat that is
\* not stored has been refused
C7_Witness ==
  \E k \in LegacyMissing :
    /\ fails = 0
    /\ ops[k].pc = "done"
    /\ ops[k].ghost.message # {}
    /\ ops[k].ghost.chat = {}

\* C8: the map getBookmarkStatus resolves to once its lookups have been
\* answered has the requested ids, and
\* nothing else, as its keys; the value of an id is true exactly if the
\* bookmarks collection has a row with that id, all ids being looked up in
\* one state of the collection; isMessageBookmarked gives the same answer
\* for an id.
C8_BookmarkStatusMatchesRows ==
  /\ \A i \in FinishedOf({"getBookmarkStatus"}) :
       LET o   == ops[txs[i].op]
           ids == o.a.messageIds
       IN  /\ DOMAIN o.out = {ids[j] : j \in 1..Len(ids)}
           /\ \A id \in DOMAIN o.out :
                o.out[id] = (\E b \in store.bookmarks : b.id = id)
  /\ \A i \in FinishedOf({"isMessageBookmarked"}) :
       LET o == ops[txs[i].op]
       IN  o.out = (\E b \in store.bookmarks : b.id = o.a.messageId)

\* a status map with a bookmarked and an unbookmarked id has been delivered
\* while a write to the bookmarks waits behind the read
C8_Witness ==
  \E i \in FinishedOf({"getBookmarkStatus"}) :
    LET o == ops[txs[i].op]
    IN  /\ \E id1, id2 \in DOMAIN o.out : o.out[id1] /\ ~o.out[id2]
        /\ \E j \in DOMAIN txs :
             /\ j > i
             /\ ops[txs[j].op].kind \in {"saveBookmark", "removeBookmark"}
             /\ txs[j].reqs # <<>>

(***************************************************************************)
(* The chat parser: chatParser.worker.ts; parseWhatsAppChatSync of         *)
(* chatParser.ts (75-120) parses a line the same way.                      *)
(***************************************************************************)
\* a failed String.prototype.match
NoMatch == [ok |-> FALSE, date |-> <<>>, time |-> <<>>, rest |-> <<>>]

\* last position of \d{1,2}\/\d{1,2}\/\d{2,4} at the start of the line with
\* digit runs a, b, c; 0 when the line does not start with a date
DateEndOf(line, a, b, c) ==
  IF /\ a \in 1..2 /\ b \in 1..2 /\ c \in 2..4
     /\ At(line, a + 1) = "/"
     /\ At(line, a + b + 2) = "/"
  THEN a + b + c + 2 ELSE 0

DateEndAfter2(line, a, b) == DateEndOf(line, a, b, DigitRun(line, a + b + 3))

DateEndAfter1(line, a) == DateEndAfter2(line, a, DigitRun(line, a + 2))

DateEnd(line) == DateEndAfter1(line, DigitRun(line, 1))

\* last position of \d{1,2}:\d{2} starting at position p with an hour of h
\* digits, the next character not being a digit; 0 when there is no time
TimeEndOf(line, p, h) ==
  IF /\ h \in 1..2
     /\ At(line, p + h) = ":"
     /\ DigitRun(line, p + h + 1) = 2
  THEN p + h + 2 ELSE 0

TimeEnd(line, p) == TimeEndOf(line, p, DigitRun(line, p))

\* (.+)$ behind \s*: the text from rs, the first position behind the
\* whitespace that follows the dash; when nothing is left there, \s* gives
\* back the last whitespace character
RestOf(line, dash, rs) ==
  IF rs <= Len(line) THEN SubSeq(line, rs, Len(line))
  ELSE IF rs > dash + 1 THEN <<line[Len(line)]>>
  ELSE <<>>

\* the three groups, the dot matching no line terminator
MatchGroups(line, de, ts, te, rest) ==
  IF rest = <<>> \/ \E i \in 1..Len(rest) : rest[i] \in LineTerminators
  THEN NoMatch
  ELSE [ok |-> TRUE, date |-> SubSeq(line, 1, de), time |-> SubSeq(line, ts, te),
        rest |-> rest]

MatchFromDash(line, de, ts, te, dash) ==
  IF At(line, dash) # "-" THEN NoMatch
  ELSE MatchGroups(line, de, ts, te,
                   RestOf(line, dash, dash + 1 + SpaceRun(line, dash + 1)))

MatchFromTimeEnd(line, de, ts, te) ==
  IF te = 0 THEN NoMatch
  ELSE MatchFromDash(line, de, ts, te, te + 1 + SpaceRun(line, te + 1))

MatchFromTime(line, de, ts) == MatchFromTimeEnd(line, de, ts, TimeEnd(line, ts))

MatchFromDate(line, de) ==
  IF de = 0 \/ At(line, de + 1) # "," THEN NoMatch
  ELSE MatchFromTime(line, de, de + 2 + SpaceRun(line, de + 2))

\* line.match(messageRegex) with
\* messageRegex = /^(\d{1,2}\/\d{1,2}\/\d{2,4}),\s*(\d{1,2}:\d{2})\s*-\s*(.+)$/
messageRegex(line) == MatchFromDate(line, DateEnd(line))

\* position of the last occurrence of character c in s, 0 when absent
LastIndex(s, c) ==
  IF \E i \in 1..Len(s) : s[i] = c
  THEN CHOOSE i \in 1..Len(s) : s[i] = c /\ \A j \in (i + 1)..Len(s) : s[j] # c
  ELSE 0

\* a split at the last colon of the text
SplitAtLastColon(rest, k) ==
  IF k < 2 THEN [ok |-> FALSE, sender |-> <<>>, content |-> <<>>]
  ELSE [ok |-> TRUE,
        sender |-> Trim(SubSeq(rest, 1, LastIndex(rest, ":") - 1)),
        content |-> Trim(SubSeq(rest, LastIndex(rest, ":") + 1, Len(rest)))]

\* a split that accepts an empty sender: /^([^:]*):\s*(.*)$/
SplitAtAnyColon(rest, k) ==
  IF k < 1 THEN [ok |-> FALSE, sender |-> <<>>, content |-> <<>>]
  ELSE [ok |-> TRUE,
        sender |-> Trim(SubSeq(rest, 1, k - 1)),
        content |-> Trim(SubSeq(rest, k + 1 + SpaceRun(rest, k + 1), Len(rest)))]

\* /^([^:]+):\s*(.*)$/ with the first colon of rest at position k (0: none):
\* group 1 needs a character before the colon; sender.trim(), content.trim()
SplitAtColon(rest, k) ==
  IF k < 2 THEN [ok |-> FALSE, sender |-> <<>>, content |-> <<>>]
  ELSE [ok |-> TRUE,
        sender |-> Trim(SubSeq(rest, 1, k - 1)),
        content |-> Trim(SubSeq(rest, k + 1 + SpaceRun(rest, k + 1), Len(rest)))]

\* rest.match(/^([^:]+):\s*(.*)$/) (67, 73-76)
senderContentMatch(rest) == SplitAtColon(rest, FirstIndex(rest, ":"))

\* the sender given to a line without one (84)
SystemSender == <<"S", "y", "s", "t", "e", "m">>

\* Math.random().toString(36).substr(2, 9), one character standing for the
\* nine
RandomSuffixes == {"x", "y"}

\* the message pushed for line number n (69-97); n is a history field: the
\* line the message was parsed from
ParsedMessage(n, match, sc, rnd) ==
  [id |-> match.date \o <<"-">> \o match.time \o <<"-", rnd>>,
   date |-> Trim(match.date),
   time |-> Trim(match.time),
   sender |-> IF sc.ok THEN sc.sender ELSE SystemSender,
   content |-> IF sc.ok THEN sc.content ELSE Trim(match.rest),
   isBookmarked |-> FALSE,
   isSystemMessage |-> ~sc.ok,
   n |-> n]

\* a variant of the test of line 79 that lets every sender text through
IsParticipantWhateverSender(message) == ~message.isSystemMessage

\* !isSystemMessage && sender !== 'System' (79)
IsParticipant(message) ==
  /\ ~message.isSystemMessage
  /\ message.sender # SystemSender

\* participants.add(sender) for the messages with a sender other than
\* 'System' (78-81)
RECURSIVE AddParticipants(_, _)
AddParticipants(set, messages) ==
  IF messages = <<>> THEN set
  ELSE AddParticipants(
         IF IsParticipant(Head(messages))
         THEN SetAdd(set, Head(messages).sender) ELSE set,
         Tail(messages))

\* a non-negative integer as decimal text
DigitChars == <<"0", "1", "2", "3", "4", "5", "6", "7", "8", "9">>

RECURSIVE DecimalText(_)
DecimalText(k) ==
  IF k < 10 THEN <<DigitChars[k + 1]>>
  ELSE DecimalText(k \div 10) \o <<DigitChars[(k % 10) + 1]>>

\* a variant of the naming rule that joins every participant with ' & '
RECURSIVE ChatNameJoiningAll(_)
ChatNameJoiningAll(participantList) ==
  IF Len(participantList) = 0
  THEN <<"E", "m", "p", "t", "y", " ", "C", "h", "a", "t">>
  ELSE IF Len(participantList) = 1
  THEN participantList[1] \o <<" ", "(", "N", "o", "t", "e", "s", ")">>
  ELSE participantList[1] \o <<" ", "&", " ">>
         \o (IF Len(participantList) = 2 THEN participantList[2]
             ELSE ChatNameJoiningAll(Tail(participantList)))

\* the chat name made from the participants (117-128)
ChatNameFrom(participantList) ==
  IF Len(participantList) = 0
  THEN <<"E", "m", "p", "t", "y", " ", "C", "h", "a", "t">>
  ELSE IF Len(participantList) = 1
  THEN participantList[1] \o <<" ", "(", "N", "o", "t", "e", "s", ")">>
  ELSE IF Len(participantList) = 2
  THEN participantList[1] \o <<" ", "&", " ">> \o participantList[2]
  ELSE participantList[1] \o <<",", " ">> \o participantList[2] \o <<" ", "+">>
         \o DecimalText(Len(participantList) - 2)
         \o <<" ", "o", "t", "h", "e", "r", "s">>

\* generateChatName of utils/chatParser.ts: the senders are collected from
\* the messages (127-133), the name is made from their list (135-145)
RECURSIVE CollectSenders(_, _)
CollectSenders(set, messages) ==
  IF messages = <<>> THEN set
  ELSE CollectSenders(
         IF ~Head(messages).isSystemMessage /\ Head(messages).sender # SystemSender
         THEN SetAdd(set, Head(messages).sender) ELSE set,
         Tail(messages))

NameOfList(list) ==
  IF Len(list) = 0
  THEN <<"E", "m", "p", "t", "y", " ", "C", "h", "a", "t">>
  ELSE IF Len(list) = 1
  THEN list[1] \o <<" ", "(", "N", "o", "t", "e", "s", ")">>
  ELSE IF Len(list) = 2
  THEN list[1] \o <<" ", "&", " ">> \o list[2]
  ELSE SubSeq(list, 1, 2)[1] \o <<",", " ">> \o SubSeq(list, 1, 2)[2]
         \o <<" ", "+">> \o DecimalText(Len(list) - 2)
         \o <<" ", "o", "t", "h", "e", "r", "s">>

generateChatName(messages) == NameOfList(CollectSenders(<<>>, messages))

\* Math.round((processedLines / totalLines) * 100) for totalLines > 0
ProgressOf(processedLines, totalLines) ==
  (200 * processedLines + totalLines) \div (2 * totalLines)

Min(a, b) == IF a <= b THEN a ELSE b

\* content.split('\n')
RECURSIVE SplitLines(_, _)
SplitLines(content, line) ==
  IF content = <<>> THEN <<line>>
  ELSE IF Head(content) = "\n"
       THEN <<line>> \o SplitLines(Tail(content), <<>>)
       ELSE SplitLines(Tail(content), Append(line, Head(content)))

\* .filter(line => line.trim()): the lines that are not blank (50)
NonBlank(line) == Trim(line) # <<>>

\* the files the parser is given: up to MaxLines lines joined by '\n'.  The
\* first line is the usual head "1/2/23, 10:00 - " followed by any text of
\* up to MaxRest characters over a name, a colon and a blank, or one of a
\* few other lines; the lines behind it are a blank line, a line that is no
\* message, messages of two further senders and a notice without sender
MaxLines == 3
MaxRest == 3

LineHead ==
  <<"1", "/", "2", "/", "2", "3", ",", " ", "1", "0", ":", "0", "0", " ", "-", " ">>

RestChars == {"A", ":", " "}

Rests == UNION {[1..k -> RestChars] : k \in 1..MaxRest}

TailLines ==
  {<<>>,
   <<"h", "i">>,
   LineHead \o <<"B", ":", " ", "h", "i">>,
   LineHead \o <<"C", ":", " ", "y", "o">>,
   LineHead \o <<"B", " ", "l", "e", "f", "t">>}

OtherLines ==
  TailLines \cup
  {<<" ", "\r">>,
   <<"1", "2", "/", "3", "1", "/", "2", "0", "2", "3", ",", "9", ":", "0", "5", "-",
     "B", ":", "h", "i">>,
   LineHead \o <<"S", "y", "s", "t", "e", "m", ":", " ", "h", "i">>,
   LineHead \o <<"B", ":", " ", "h", "i", "\r">>,
   <<"1", "/", "2", "/", "2", "3", ",", " ", "1", "0", ":", "0", "0", ":", "0", "0",
     " ", "-", " ", "B", ":", " ", "h", "i">>}

Lines == {LineHead \o r : r \in Rests} \cup OtherLines

RECURSIVE JoinLines(_)
JoinLines(ls) ==
  IF ls = <<>> THEN <<>>
  ELSE IF Len(ls) = 1 THEN ls[1]
  ELSE ls[1] \o <<"\n">> \o JoinLines(Tail(ls))

LineLists ==
  {<<>>} \cup {<<first>> \o more :
                 first \in Lines,
                 more \in UNION {[1..k -> TailLines] : k \in 0..(MaxLines - 1)}}

Contents == {JoinLines(ls) : ls \in LineLists}

\* line.match(messageRegex) (61) and rest.match (67) for every line the
\* contents are made of, worked out once
LineMatch == [line \in Lines |-> messageRegex(line)]

SenderContent ==
  [rest \in {LineMatch[line].rest : line \in Lines} |-> senderContentMatch(rest)]

\* a variant that pushes a message for every line
MessagesOfEveryLine(n, match, rnd) ==
  <<ParsedMessage(n, match, senderContentMatch(match.rest), rnd)>>

\* the messages of one line: none when the line does not match (61-63)
MessagesOfMatch(n, match, rnd) ==
  IF match.ok
  THEN <<ParsedMessage(n, match, SenderContent[match.rest], rnd)>>
  ELSE <<>>

\* the messages of the lines chunk[j..], the first line of the chunk being
\* line number first, with random suffixes rnds (60-99)
RECURSIVE MessagesOfChunk(_, _, _, _)
MessagesOfChunk(chunk, first, rnds, j) ==
  IF j > Len(chunk) THEN <<>>
  ELSE MessagesOfMatch(first + j - 1, LineMatch[chunk[j]], rnds[j])
         \o MessagesOfChunk(chunk, first, rnds, j + 1)

\* lines parsed between two yields (42); the program's value is 1000
CHUNK_SIZE == 2

\* a variant of line 102 without the cap at totalLines
ProcessedLinesUncapped(i, totalLines) == i + CHUNK_SIZE

\* Math.min(i + CHUNK_SIZE, totalLines) (102)
ProcessedLines(i, totalLines) == Min(i + CHUNK_SIZE, totalLines)

\* parseWhatsAppChat of utils/chatParser.ts (24-35, 66-68): the worker is
\* created and the content posted to it.  The content is a text, or a value
\* that is no string
parseWhatsAppChat ==
  /\ wpc = "idle"
  /\ host.promise = "none"
  /\ \/ \E content \in Contents :
          host' = [host EXCEPT !.content = content, !.promise = "pending"]
     \/ host' = [host EXCEPT !.isString = FALSE, !.promise = "pending"]
  /\ wpc' = "posted"
  /\ UNCHANGED <<lines, cursor, parsed, participants, events, storeVars, appVars>>

\* self.onmessage (150-153) and the start of parseWhatsAppChatInChunks
\* (50-53); content.split throws when the content is no string, and the
\* catch posts the error (141-146)
OnMessage ==
  /\ wpc = "posted"
  /\ ~host.terminated
  /\ IF host.isString
     THEN /\ lines' = SelectSeq(SplitLines(host.content, <<>>), NonBlank)
          /\ wpc' = "loop"
          /\ UNCHANGED events
     ELSE /\ events' = Append(events, [type |-> "error", error |-> "TypeError"])
          /\ wpc' = "done"
          /\ UNCHANGED lines
  /\ cursor' = 0
  /\ parsed' = <<>>
  /\ participants' = <<>>
  /\ UNCHANGED <<host, storeVars, appVars>>

\* messages.push and participants.add for the messages of a chunk (78-81,
\* 89-97)
Pushed(messages) ==
  /\ parsed' = parsed \o messages
  /\ participants' = AddParticipants(participants, messages)

\* one pass of the chunk loop (56-113): parse the chunk, report progress,
\* yield
ParseChunk ==
  /\ wpc = "loop"
  /\ ~host.terminated
  /\ cursor < Len(lines)
  /\ \E rnds \in [1..CHUNK_SIZE -> RandomSuffixes] :
       Pushed(MessagesOfChunk(
                SubSeq(lines, cursor + 1, Min(cursor + CHUNK_SIZE, Len(lines))),
                cursor + 1, rnds, 1))
  /\ events' = Append(events,
                 [type |-> "progress",
                  progress |-> ProgressOf(ProcessedLines(cursor, Len(lines)), Len(lines)),
                  totalLines |-> Len(lines),
                  processedLines |-> ProcessedLines(cursor, Len(lines))])
  /\ cursor' = cursor + CHUNK_SIZE
  /\ wpc' = "yield"
  /\ UNCHANGED <<lines, host, storeVars, appVars>>

\* the timer of line 113 fires and the loop goes on
Resume ==
  /\ wpc = "yield"
  /\ ~host.terminated
  /\ wpc' = "loop"
  /\ UNCHANGED <<lines, cursor, parsed, participants, events, host, storeVars, appVars>>

\* the loop is over: the result is posted (116-139)
Complete ==
  /\ wpc = "loop"
  /\ ~host.terminated
  /\ cursor >= Len(lines)
  /\ events' = Append(events,
                 [type |-> "complete",
                  result |-> [messages |-> parsed,
                              chatName |-> ChatNameFrom(participants),
                              participants |-> participants,
                              messageCount |-> Len(parsed)]])
  /\ wpc' = "done"
  /\ UNCHANGED <<lines, cursor, parsed, participants, host, storeVars, appVars>>

\* a variant that settles the promise and lets the worker run on
SettledOnly(h, promise, result, error) ==
  [h EXCEPT !.settles = @ + 1,
            !.promise = IF @ = "pending" THEN promise ELSE @,
            !.result = IF h.promise = "pending" THEN result ELSE @,
            !.error = IF h.promise = "pending" THEN error ELSE @]

\* worker.terminate() and resolve or reject (47-49, 53-55, 61-63): the
\* promise keeps its first settlement
Settled(h, promise, result, error) ==
  [h EXCEPT !.terminated = TRUE,
            !.settles = @ + 1,
            !.promise = IF @ = "pending" THEN promise ELSE @,
            !.result = IF h.promise = "pending" THEN result ELSE @,
            !.error = IF h.promise = "pending" THEN error ELSE @]

\* worker.onmessage of utils/chatParser.ts (36-58) on the next message of
\* the worker
Handled(h, message) ==
  IF message.type = "progress"
  THEN [h EXCEPT !.onProgress = Append(@, <<message.progress,
                                            message.processedLines,
                                            message.totalLines>>)]
  ELSE IF message.type = "complete"
  THEN Settled(h, "resolved", <<message.result>>, <<>>)
  ELSE Settled(h, "rejected", <<>>, <<message.error>>)

WorkerOnMessage ==
  /\ host.seen < Len(events)
  /\ host' = [Handled(host, events[host.seen + 1]) EXCEPT !.seen = @ + 1]
  /\ UNCHANGED <<lines, cursor, parsed, participants, events, wpc, storeVars, appVars>>

\* worker.onerror of utils/chatParser.ts (60-64): the worker's script could
\* not be run
WorkerOnError ==
  /\ wpc = "posted"
  /\ ~host.terminated
  /\ host' = Settled(host, "rejected", <<>>, <<"Worker error">>)
  /\ UNCHANGED <<lines, cursor, parsed, participants, events, wpc, storeVars, appVars>>

ParserInit ==
  /\ ParserIdle
  /\ AppIdle
  /\ StoreIdle
  /\ store = EmptyStore

ParserNext ==
  \/ parseWhatsAppChat
  \/ OnMessage
  \/ ParseChunk
  \/ Resume
  \/ Complete
  \/ WorkerOnMessage
  \/ WorkerOnError

SpecParser == ParserInit /\ [][ParserNext]_vars

\* the worker's and the caller's event loops run the tasks queued for them
ParserFairness ==
  WF_vars(OnMessage \/ ParseChunk \/ Resume \/ Complete \/ WorkerOnMessage)

SpecParserLive == ParserInit /\ [][ParserNext]_vars /\ ParserFairness

(***************************************************************************)
(* SpecImport: a transcript is parsed and the chat made of its messages is *)
(* saved (components/WhatsAppViewer.tsx 106-128, useChats.addChat).        *)
(***************************************************************************)
\* the first lines of the transcripts imported: a message of A and a
\* message whose sender text is System
ImportFirstLines ==
  {LineHead \o <<"A", ":", "A">>,
   LineHead \o <<"S", "y", "s", "t", "e", "m", ":", " ", "h", "i">>}

ImportContents ==
  {JoinLines(ls) : ls \in {l \in LineLists : l # <<>> /\ l[1] \in ImportFirstLines}}

\* parseWhatsAppChat(content) for the content of the file (110-111)
ParseImported ==
  /\ wpc = "idle"
  /\ host.promise = "none"
  /\ \E content \in ImportContents :
       host' = [host EXCEPT !.content = content, !.promise = "pending"]
  /\ wpc' = "posted"
  /\ UNCHANGED <<lines, cursor, parsed, participants, events, storeVars, appVars>>

\* the chat of handleFileUpload (113-128) is handed to saveChat by addChat
\* (part_007 175-182); nothing is saved for a transcript without messages
ImportChat ==
  /\ host.promise = "resolved"
  /\ ops = <<>>
  /\ LET messages == host.result[1].messages
     IN  /\ Len(messages) # 0
         /\ Invoke("saveChat",
                   [chat |-> [id |-> "c1", name |-> generateChatName(messages),
                              messages |-> messages]],
                   <<"meta", "msgs">>)

\* the characters of the ids the parser makes, in code-unit order
CharCodes ==
  <<" ", ",", "-", "/", "0", "1", "2", "3", "4", "5", "6", "7", "8", "9", ":",
    "x", "y">>

CharCode(c) == CHOOSE n \in 1..Len(CharCodes) : CharCodes[n] = c

\* the order of IndexedDB on string keys: code unit by code unit, a prefix
\* before its extensions
RECURSIVE TextBefore(_, _)
TextBefore(a, b) ==
  IF b = <<>> THEN FALSE
  ELSE IF a = <<>> THEN TRUE
  ELSE IF Head(a) = Head(b) THEN TextBefore(Tail(a), Tail(b))
  ELSE CharCode(Head(a)) < CharCode(Head(b))

\* rows of an index scan in index order, timestamp and then primary key,
\* for rows whose keys are texts
TextIndexOrder(rows) ==
  [n \in 1..Cardinality(rows) |->
     CHOOSE r \in rows :
       Cardinality({x \in rows :
                      \/ x.timestamp < r.timestamp
                      \/ (x.timestamp = r.timestamp /\ TextBefore(x.id, r.id))}) = n - 1]

\* loadChat(chat.id) once the chat is saved (normalizedDb.ts 401-409)
LoadImportedChat ==
  /\ Len(ops) = 1
  /\ ops[1].pc = "done"
  /\ ops[1].status = "ok"
  /\ txs = <<>>
  /\ Invoke("loadChat", [chatId |-> "c1", limit |-> Undefined, offset |-> Undefined],
            <<"meta", "msgs">>)

\* loadChatMessages: index.getAll(range) succeeded (364-386), the keys of
\* the rows being the ids of the parser
LoadImportedMessagesGetAll(i) ==
  /\ Ready(i, {"loadChat"}, "msgs", "getRange")
  /\ LET req == Head(txs[i].reqs)
         o   == ops[txs[i].op]
     IN  Succeed(i, <<>>, <<>>,
                 Resolved(o, "msgs",
                          LoadChatMessagesResult(
                            TextIndexOrder({r \in store.messages :
                                              /\ r.chatId = req.chatId
                                              /\ req.lo <= r.timestamp
                                              /\ r.timestamp <= req.hi}),
                            o.a.limit, o.a.offset)))

ImportNext ==
  \/ ParseImported
  \/ OnMessage
  \/ ParseChunk
  \/ Resume
  \/ Complete
  \/ WorkerOnMessage
  \/ ImportChat
  \/ OpenSuccess
  \/ \E i \in TxSlots : Commit(i)
  \/ \E i \in TxSlots : SaveChatMetadataPut(i)
  \/ \E i \in TxSlots : SaveChatMessagesPut(i)
  \/ LoadImportedChat
  \/ \E i \in TxSlots : LoadChatMetadataGet(i)
  \/ \E i \in TxSlots : LoadImportedMessagesGetAll(i)

SpecImport == ParserInit /\ [][ImportNext]_vars

\* the numbers of the lines parsed so far
Processed == 1..Min(cursor, Len(lines))

\* the lines parsed so far that match the message grammar
Matched == {n \in Processed : messageRegex(lines[n]).ok}

\* the messages emitted for line number n
MessagesOfLine(n) == {j \in 1..Len(parsed) : parsed[j].n = n}

\* REST: the text of a line behind the dash that follows the time
RestText(line) == TrimLeft(SubSeq(line, FirstIndex(line, "-") + 1, Len(line)))

\* DATE and TIME: the text before the comma, and between comma and dash
DateText(line) == SubSeq(line, 1, FirstIndex(line, ",") - 1)
TimeText(line) ==
  Trim(SubSeq(line, FirstIndex(line, ",") + 1, FirstIndex(line, "-") - 1))

\* C9: for every parsed line 'DATE, TIME - Name: body' that matches the
\* message grammar there is exactly one message; its sender is the text of
\* REST before the first colon, trimmed, its content the text behind that
\* colon, trimmed, it is no system message, and its date and time are the
\* DATE and TIME of the line.
C9_NameBodyLineGivesOneMessage ==
  \A n \in Matched :
    LET rest == RestText(lines[n])
        k    == FirstIndex(rest, ":")
    IN  k >= 2 =>
          /\ Cardinality(MessagesOfLine(n)) = 1
          /\ \A j \in MessagesOfLine(n) :
               /\ parsed[j].sender = Trim(SubSeq(rest, 1, k - 1))
               /\ parsed[j].content = Trim(SubSeq(rest, k + 1, Len(rest)))
               /\ ~parsed[j].isSystemMessage
               /\ parsed[j].date = DateText(lines[n])
               /\ parsed[j].time = TimeText(lines[n])

\* a line whose body has a colon of its own has been parsed
C9_Witness ==
  \E n \in Matched :
    /\ FirstIndex(RestText(lines[n]), ":") >= 2
    /\ LastIndex(RestText(lines[n]), ":") > FirstIndex(RestText(lines[n]), ":")
    /\ MessagesOfLine(n) # {}

\* C10 as the specification has it: a parsed line that matches the message
\* grammar gives a system message, with sender "System" and content REST
\* trimmed, if and only if REST has no colon; every line whose REST has a
\* colon gives a normal message.
C10_SystemIffNoColon ==
  \A n \in Matched :
    LET rest == RestText(lines[n])
        k    == FirstIndex(rest, ":")
    IN  /\ Cardinality(MessagesOfLine(n)) = 1
        /\ \A j \in MessagesOfLine(n) :
             /\ parsed[j].isSystemMessage = (k = 0)
             /\ k = 0 => /\ parsed[j].sender = SystemSender
                         /\ parsed[j].content = Trim(rest)

\* C10 amended: a parsed line that matches the message grammar gives a
\* system message, with sender "System" and content REST trimmed, if and
\* only if REST has no colon or begins with a colon; every line whose REST
\* has its first colon behind at least one other character gives a normal
\* message.
C10_SystemIffNoSender ==
  \A n \in Matched :
    LET rest == RestText(lines[n])
        k    == FirstIndex(rest, ":")
    IN  /\ Cardinality(MessagesOfLine(n)) = 1
        /\ \A j \in MessagesOfLine(n) :
             /\ parsed[j].isSystemMessage = (k \in {0, 1})
             /\ k \in {0, 1} => /\ parsed[j].sender = SystemSender
                                /\ parsed[j].content = Trim(rest)

\* a line whose REST begins with a colon has been parsed into a system
\* message, next to a line without a colon
C10_Witness ==
  \E n, m \in Matched :
    /\ FirstIndex(RestText(lines[n]), ":") = 1
    /\ \E j \in MessagesOfLine(n) : parsed[j].isSystemMessage
    /\ FirstIndex(RestText(lines[m]), ":") = 0
    /\ \E j \in MessagesOfLine(m) : parsed[j].isSystemMessage

\* the results the worker has posted
Results == {events[i].result : i \in {j \in 1..Len(events) : events[j].type = "complete"}}

\* the positions of the messages in a list that a person sent: sender texts
\* of messages that are no system messages, the text "System" apart
SentBy(messages, sender) ==
  {j \in 1..Len(messages) :
     ~messages[j].isSystemMessage /\ messages[j].sender = sender}

FirstOf(positions) == CHOOSE j \in positions : \A k \in positions : j <= k

\* C11: the participants list of every result holds each distinct sender of
\* a message that is no system message exactly once, in the order in which
\* the senders first appear in the messages, and never holds the text
\* "System", neither for a system message nor for a 'System: ...' line.
C11_ParticipantsAreSendersInOrder ==
  \A r \in Results :
    LET P == r.participants
        M == r.messages
    IN  /\ \A i, j \in 1..Len(P) : i # j => P[i] # P[j]
        /\ {P[i] : i \in 1..Len(P)}
             = {M[j].sender : j \in {k \in 1..Len(M) : ~M[k].isSystemMessage}}
                 \ {SystemSender}
        /\ \A i, j \in 1..Len(P) :
             i < j => FirstOf(SentBy(M, P[i])) < FirstOf(SentBy(M, P[j]))
        /\ \A i \in 1..Len(P) : P[i] # SystemSender

\* a result with a 'System: ...' line and one participant, who wrote twice
C11_Witness ==
  \E r \in Results :
    /\ SentBy(r.messages, SystemSender) # {}
    /\ Len(r.participants) = 1
    /\ \E i \in 1..Len(r.participants) :
         Cardinality(SentBy(r.messages, r.participants[i])) = 2

\* C12: the chat name of every result is made from its participants list
\* alone: "Empty Chat" for none, "P (Notes)" for one, "P & Q" for two, and
\* for n >= 3 the first two names joined by ", " followed by " +(n-2)
\* others"; generateChatName gives the same name for the result's messages.
C12_ChatNameByParticipantCount ==
  \A r \in Results :
    LET P == r.participants
        n == Len(P)
    IN  /\ n = 0 => r.chatName = <<"E", "m", "p", "t", "y", " ", "C", "h", "a", "t">>
        /\ n = 1 => r.chatName = P[1] \o <<" ", "(", "N", "o", "t", "e", "s", ")">>
        /\ n = 2 => r.chatName = P[1] \o <<" ", "&", " ">> \o P[2]
        /\ n >= 3 => r.chatName = P[1] \o <<",", " ">> \o P[2] \o <<" ", "+">>
                                    \o DecimalText(n - 2)
                                    \o <<" ", "o", "t", "h", "e", "r", "s">>
        /\ generateChatName(r.messages) = r.chatName

\* a result with three participants has been posted
C12_Witness == \E r \in Results : Len(r.participants) = 3

\* the lines of the content handed to the parser, blank ones included, and
\* those of them that match the message grammar, in input order
RawLines == SplitLines(host.content, <<>>)
GrammarLines == SelectSeq(RawLines, LAMBDA l : messageRegex(l).ok)

\* the content a line of the grammar stands for: the text behind the first
\* colon of REST when a sender stands before it, else REST
ContentOfLine(line) ==
  IF FirstIndex(RestText(line), ":") >= 2
  THEN Trim(SubSeq(RestText(line), FirstIndex(RestText(line), ":") + 1,
                   Len(RestText(line))))
  ELSE Trim(RestText(line))

\* C13: the messages of every result are exactly the lines of the input
\* that match the message grammar, in input order, and messageCount is
\* their number; blank lines and lines outside the grammar give no message
\* and leave the content of every message as its own line has it.
C13_MessagesAreTheGrammarLines ==
  \A r \in Results :
    /\ Len(r.messages) = Len(GrammarLines)
    /\ r.messageCount = Len(GrammarLines)
    /\ \A i \in 1..Len(r.messages) :
         /\ i <= Len(GrammarLines)
         /\ r.messages[i].date = DateText(GrammarLines[i])
         /\ r.messages[i].time = TimeText(GrammarLines[i])
         /\ r.messages[i].content = ContentOfLine(GrammarLines[i])

\* a result for an input of three lines: a message, a line that is blank or
\* outside the grammar, and a message
C13_Witness ==
  \E r \in Results :
    /\ Len(RawLines) = 3
    /\ messageRegex(RawLines[1]).ok
    /\ ~messageRegex(RawLines[2]).ok
    /\ messageRegex(RawLines[3]).ok
    /\ r.messageCount = 2

\* the progress events the worker has posted, in order
ProgressEvents == SelectSeq(events, LAMBDA e : e.type = "progress")

\* T: the number of lines of the input that are not blank
NonBlankCount == Len(SelectSeq(RawLines, NonBlank))

\* the number of chunks of CHUNK_SIZE lines that T lines make
ChunkCount == (NonBlankCount + CHUNK_SIZE - 1) \div CHUNK_SIZE

ProgressInOrder ==
  /\ Len(ProgressEvents) <= ChunkCount
  /\ \A k \in 1..Len(ProgressEvents) :
       /\ ProgressEvents[k].totalLines = NonBlankCount
       /\ ProgressEvents[k].processedLines <= NonBlankCount
       /\ ProgressEvents[k].processedLines
            = (IF k * CHUNK_SIZE <= NonBlankCount THEN k * CHUNK_SIZE
               ELSE NonBlankCount)
       /\ k > 1 => ProgressEvents[k - 1].processedLines
                     < ProgressEvents[k].processedLines
  /\ Results # {} =>
       /\ Len(ProgressEvents) = ChunkCount
       /\ ChunkCount > 0 =>
            /\ ProgressEvents[ChunkCount].processedLines = NonBlankCount
            /\ ProgressEvents[ChunkCount].progress = 100

PostsProgress ==
  /\ Len(events') = Len(events) + 1
  /\ events'[Len(events')].type = "progress"

\* C14: for an input with T lines that are not blank the worker posts one
\* progress event after each chunk of CHUNK_SIZE lines, ceil(T/CHUNK_SIZE)
\* in all when it completes; processedLines grows strictly from event to
\* event, never exceeds T and is T in the last event, whose progress is
\* 100; totalLines is T in every event; and the worker yields to the
\* scheduler right after each progress event.
C14_ProgressPerChunk ==
  /\ []ProgressInOrder
  /\ [][PostsProgress => (wpc' = "yield" /\ cursor' = cursor + CHUNK_SIZE)]_vars

\* a parse of three lines has completed after two chunks, the second one
\* shorter than CHUNK_SIZE
C14_Witness ==
  /\ Results # {}
  /\ NonBlankCount = 3
  /\ Len(ProgressEvents) = 2
  /\ ProgressEvents[2].processedLines - ProgressEvents[1].processedLines < CHUNK_SIZE

\* the positions of the terminal events among the worker's events
TerminalEvents ==
  {i \in 1..Len(events) : events[i].type \in {"complete", "error"}}

OneTerminalEventLast ==
  /\ Cardinality(TerminalEvents) <= 1
  /\ \A i \in TerminalEvents : i = Len(events)

SettlesOnce ==
  /\ host.settles <= 1
  /\ host.promise \in {"resolved", "rejected"} <=> host.settles = 1
  /\ host.promise \in {"resolved", "rejected"} <=> host.terminated
  /\ host.promise = "resolved" =>
       /\ host.result \in {<<r>> : r \in Results}
       /\ host.error = <<>>
  /\ host.promise = "rejected" =>
       /\ host.result = <<>>
       /\ Len(host.error) = 1

NothingAfterSettlement ==
  host.promise \in {"resolved", "rejected"} => UNCHANGED <<host, events>>

\* C15: a parse request that the worker takes up ends with one terminal
\* event, 'complete' or 'error', never both, and no event follows it; the
\* promise of parseWhatsAppChat settles exactly once, the worker being
\* terminated at that moment; after a rejection the caller gets no result
\* and no further progress call.
C15_OneTerminalEventOneSettlement ==
  /\ [](OneTerminalEventLast /\ SettlesOnce)
  /\ [][NothingAfterSettlement]_vars
  /\ (wpc \in {"loop", "yield"}) ~> (TerminalEvents # {})
  /\ (host.promise = "pending") ~> (host.settles = 1)

\* the worker has posted an error and the caller's promise is rejected
C15_Witness ==
  /\ \E i \in TerminalEvents : events[i].type = "error"
  /\ host.promise = "rejected"
  /\ host.seen = Len(events)

\* the transactions of saveChatMessages
SaveMessagesTxs ==
  {i \in DOMAIN txs : ops[txs[i].op].kind = "saveChat" /\ txs[i].part = "msgs"}

\* the date or the time of a message fails its grammar, or the two do not
\* parse together
Malformed(m) ==
  \/ ~dateRegex(Trim(m.date))
  \/ ~timeRegex(Trim(m.time))
  \/ DateGetTime(m.date, m.time) = NaN

\* the row carries the fields of the message as they were given
RowOfMessage(r, chatId, m) ==
  /\ r.id = m.id
  /\ r.chatId = chatId
  /\ r.date = m.date
  /\ r.time = m.time
  /\ r.sender = m.sender
  /\ r.content = m.content
  /\ r.isSystemMessage = m.isSystemMessage
  /\ r.timestamp # NaN

\* C16: saveChatMessages places one put for every message, whatever its
\* date and time texts, with the fields as given and a timestamp that is
\* a number; a message whose date or time fails its grammar, or whose texts
\* do not parse together, gets the current time; the rows reach the store
\* so, and saveChat is rejected only when the store failed.
C16_MalformedDatesFallBackToNow ==
  /\ \A r \in store.messages : r.timestamp # NaN
  /\ \A k \in DOMAIN ops :
       (ops[k].kind = "saveChat" /\ ops[k].status = "error") => ops[k].failed
  /\ \A i \in SaveMessagesTxs :
       LET chat  == ops[txs[i].op].a.chat
           reqs  == txs[i].reqs
           saved == Len(chat.messages) - Len(reqs)
       IN  /\ saved >= 0
           /\ \A j \in 1..Len(reqs) :
                /\ reqs[j].t = "put"
                /\ RowOfMessage(reqs[j].rec, chat.id, chat.messages[saved + j])
                /\ Malformed(chat.messages[saved + j])
                     => reqs[j].rec.timestamp = reqs[j].at
           /\ \A j \in 1..saved :
                \E r \in store.messages :
                  /\ RowOfMessage(r, chat.id, chat.messages[j])
                  /\ Malformed(chat.messages[j])
                       => r.timestamp \in {NowMs(t) : t \in 0..now}

\* a chat with a message dated "not-a-date" at "times" and one of the 31st
\* month has been saved after the clock advanced, and the rows carry that
\* time
C16_Witness ==
  \E i \in SaveMessagesTxs \cap FinishedOf({"saveChat"}) :
    /\ now = 1
    /\ \E r \in store.messages : r.id = "m7" /\ r.timestamp = NowMs(1)
    /\ \E r \in store.messages : r.id = "m5" /\ r.timestamp = NowMs(1)

\* all the message rows of chat c, ordered by timestamp
MessagesOfChat(c) == IndexOrder({r \in store.messages : r.chatId = c})

\* the elements at positions from .. from + n - 1 of seq, counted from 0,
\* as far as seq has them; n = Undefined runs to the end
PositionsOf(seq, from, n) ==
  LET to == IF n = Undefined \/ from + n > Len(seq) THEN Len(seq) ELSE from + n
  IN  [j \in 1..(IF to > from THEN to - from ELSE 0) |-> seq[from + j]]

\* C17: loadChatMessages(chatId, limit, offset) returns the messages of
\* the chat in non-decreasing timestamp order, offset applied before
\* limit: the elements at positions offset .. offset+limit-1 of the ordered
\* sequence of the chat's rows, from 0 when offset is omitted, to the end
\* when limit is omitted, and none when offset lies beyond the end.
C17_PageOfOrderedMessages ==
  \A i \in FinishedOf({"loadChatMessages"}) :
    LET o   == ops[txs[i].op]
        all == MessagesOfChat(o.a.chatId)
    IN  o.out = PositionsOf([j \in 1..Len(all) |-> LoadedMessage(all[j])],
                            IF o.a.offset = Undefined THEN 0 ELSE o.a.offset,
                            o.a.limit)

\* C18: for an existing chat loadChat(id) returns the metadata of the chat
\* and every message row whose chatId is id exactly once, whatever its
\* timestamp, and no row of another chat.
C18_LoadChatReturnsEveryMessage ==
  \A i \in FinishedOf({"loadChat"}) :
    LET o    == ops[txs[i].op]
        rows == {r \in store.messages : r.chatId = o.a.chatId}
    IN  (txs[i].part = "msgs" /\ o.out.found /\ ~o.degraded) =>
          /\ o.out.id = o.a.chatId
          /\ \A r \in rows :
               Cardinality({j \in DOMAIN o.out.messages :
                              o.out.messages[j] = LoadedMessage(r)}) = 1
          /\ \A j \in DOMAIN o.out.messages :
               \E r \in rows : o.out.messages[j] = LoadedMessage(r)

\* the read operations that return a list
ListReads == {"loadAllChatMetadata", "loadChatMessages", "loadBookmarks"}

\* C19: loadAllChatMetadata, loadChatMessages and loadBookmarks never
\* reject: when the open fails, and equally when the getAll request fails
\* after the open, they resolve to an empty list.
C19_ListReadsNeverReject ==
  \A k \in DOMAIN ops :
    (ops[k].kind \in ListReads /\ ops[k].pc = "done") =>
      /\ ops[k].status = "ok"
      /\ ops[k].failed => ops[k].out = <<>>

\* the operations that write
WriteOps == {"saveChat", "saveBookmark", "removeBookmark", "deleteChat"}

\* what the finished transaction i of a write operation left in the store
WriteApplied(i) ==
  LET o == ops[txs[i].op]
  IN  CASE o.kind = "saveBookmark" ->
             \E r \in store.bookmarks : r.id = o.a.messageId /\ HoldsArguments(r, o.a)
        [] o.kind = "removeBookmark" ->
             \A r \in store.bookmarks : r.id # o.a.messageId
        [] o.kind = "deleteChat" ->
             RowsOfChat(store, o.a.chatId) = RowsOfChat(EmptyStore, o.a.chatId)
        [] o.kind = "saveChat" /\ txs[i].part = "meta" ->
             \E r \in store.chats :
               /\ r.id = o.a.chat.id
               /\ r.name = o.a.chat.name
               /\ r.messageCount = Len(o.a.chat.messages)
        [] o.kind = "saveChat" /\ txs[i].part = "msgs" ->
             \A j \in 1..Len(o.a.chat.messages) :
               \E r \in store.messages :
                 /\ r.id = o.a.chat.messages[j].id
                 /\ r.chatId = o.a.chat.id

C21_ClosedConnectionIsReopened ==
  \A k \in DOMAIN ops :
    ops[k].pc = "done" =>
      /\ ops[k].status = "ok"
      /\ ~ops[k].failed
      /\ ~ops[k].degraded

\* the schema is below the version the code asks for: nothing has had
\* access; at that version it has the four stores and denormalized
\* bookmarks; the upgrade routine has completed once exactly when the
\* session found a lower version and the database has reached version 2
UpgradedOnce ==
  /\ idb.version < DB_VERSION => (db = "null" /\ conns = 0 /\ txs = <<>>)
  /\ idb.version = DB_VERSION =>
       (idb.names = StoreNames /\ idb.form = "denormalized" /\ idb.old = {})
  /\ idb.runs = IF idb.from < DB_VERSION /\ idb.version = DB_VERSION THEN 1 ELSE 0

\* a step that changes the version keeps the chat and message rows; an
\* interrupted upgrade leaves schema and rows as they were; at version 2
\* the schema does not change any more
UpgradeKeepsRows ==
  /\ idb'.version # idb.version =>
       (store'.chats = store.chats /\ store'.messages = store.messages)
  /\ idb'.aborted # idb.aborted =>
       (store' = store /\ idb' = [idb EXCEPT !.aborted = idb'.aborted])
  /\ idb.version = DB_VERSION => idb' = idb

\* C22: opening at version 2 from version 0 or 1 runs the upgrade routine
\* once before any other access and ends with exactly chats, messages,
\* bookmarks and metadata, bookmarks denormalized; chat and message rows are
\* unchanged; an interrupted upgrade leaves everything as it was, so that
\* the retry gives the result of an uninterrupted run; opening a database at
\* version 2 changes nothing.
C22_UpgradeRunsOnce == []UpgradedOnce /\ [][UpgradeKeepsRows]_vars

\* a version-1 database with chat c1 was upgraded at the second attempt,
\* after an interrupted one, and an operation has completed on it
C22_Witness ==
  /\ idb.from = 1
  /\ idb.version = DB_VERSION
  /\ idb.aborted = 1
  /\ idb.runs = 1
  /\ store.chats # {}
  /\ \E k \in DOMAIN ops : ops[k].pc = "done" /\ ops[k].status = "ok" /\ ~ops[k].degraded

\* C23: after the upgrade of a version-1 database every normalized bookmark
\* row whose message row and chat row exist is in the bookmarks collection
\* as a denormalized row keyed by its messageId.
C23_UpgradePreservesBookmarks ==
  idb.version = DB_VERSION =>
    \A b \in idb.dropped :
      ((\E m \in store.messages : m.id = b.messageId)
        /\ (\E c \in store.chats : c.id = b.chatId))
      => \E r \in store.bookmarks : r.id = b.messageId /\ r.chatId = b.chatId

\* C24: needsMigrationFromOldDb answers true exactly when the legacy chat
\* store holds at least one chat record and the current store holds no chat
\* record.
C24_DetectorLooksAtLegacyAndCurrent ==
  \A i \in DOMAIN mig.starts :
    mig.starts[i].needs = (mig.starts[i].old /\ ~mig.starts[i].new)

Resolvable(bookmarks) ==
  {i \in DOMAIN bookmarks :
     BookmarkData(Get(store.messages, bookmarks[i].id),
                  Get(store.chats, bookmarks[i].chatId)).found}

\* C26: when migrateBookmarkData has returned, a legacy bookmark whose
\* message or chat is missing has been skipped on its own: the result is a
\* success, migratedBookmarks counts the bookmarks that could be resolved,
\* and each of these has its row in the bookmarks collection.
C26_UnresolvableBookmarkIsSkipped ==
  mig.bm.pc = "done" =>
    /\ mig.bm.success
    /\ mig.bm.migratedBookmarks = Cardinality(Resolvable(localStorage.bookmarks))
    /\ \A i \in Resolvable(localStorage.bookmarks) :
         Get(store.bookmarks, localStorage.bookmarks[i].id) # {}

\* the number of messages of a list of chats
RECURSIVE TotalMessages(_)
TotalMessages(chats) ==
  IF chats = <<>> THEN 0
  ELSE Len(Head(chats).messages) + TotalMessages(Tail(chats))

\* C27: when migrateChatData has returned success = true, every chat of the
\* legacy store has been handed to saveChat exactly once, migratedChats is
\* the number of legacy chats and migratedMessages the number of their
\* messages, also when a batch read has failed.
C27_SuccessMeansEveryChatMigrated ==
  (mig.ch.pc = "done" /\ mig.ch.success) =>
    LET chats == legacy[LEGACY_DB_NAME].chats
    IN  /\ mig.ch.migratedChats = Len(chats)
        /\ mig.ch.migratedMessages = TotalMessages(chats)
        /\ \A i \in DOMAIN chats :
             Cardinality({k \in DOMAIN ops : /\ ops[k].kind = "saveChat"
                                             /\ ops[k].a.chat = chats[i]}) = 1

\* C28: an initialization that finds the legacy bookmarks exhausted or
\* clears them leaves the flag set; an initialization that starts with the
\* flag set neither reads the legacy bookmarks nor calls saveBookmarkLegacy;
\* and a migration that failed at one page load is not attempted again at
\* every page load after it.
C28_FailedMigrationIsNotRetried ==
  /\ (hook.pc = "ready" /\ hook.loads[Len(hook.loads)].readLegacy
        /\ localStorage.bookmarks = <<>>) => localStorage.flag
  /\ \A n \in DOMAIN hook.loads :
       hook.loads[n].flag => (~hook.loads[n].readLegacy /\ hook.loads[n].saves = 0)
  /\ \A n \in DOMAIN hook.loads :
       (hook.loads[n].failed /\ n < Len(hook.loads) /\ hook.pc = "ready")
         => \E m \in DOMAIN hook.loads : m > n /\ hook.loads[m].saves = 0

\* the retained samples are the most recent ones in recording order
MostRecent(p) ==
  \A n \in DOMAIN p.metrics : p.metrics[n] = p.recorded - Len(p.metrics) + n

\* an endTimer step that takes the count over the cap discards 100 samples
DiscardsBatch ==
  (perf'.recorded = perf.recorded + 1 /\ Len(perf.metrics) + 1 > MAX_METRICS)
    => Len(perf'.metrics) = Len(perf.metrics) + 1 - 100

\* C30: after any endTimer call at most 1000 samples are retained; a sample
\* that takes the count over 1000 makes the oldest 100 go in one batch; the
\* retained samples are the most recent ones in recording order.
C30_SamplesAreBounded ==
  /\ [](Len(perf.metrics) <= MAX_METRICS /\ MostRecent(perf))
  /\ [][DiscardsBatch]_vars

\* the second rotation has happened: sample 1101 left 901 samples
C30_Witness ==
  /\ perf.recorded = 1101
  /\ Len(perf.metrics) = 901
  /\ perf.metrics[1] = 201

\* the store mutations of the hook for message id m whose promise is pending
InFlight(m) ==
  {k \in DOMAIN ops : /\ ops[k].kind \in {"saveBookmarkLegacy", "removeBookmark"}
                      /\ ops[k].a.messageId = m
                      /\ ops[k].pc # "done"}

\* at most one mutation per id is in flight, each belongs to a call that
\* has not finished, and pendingOperations holds the ids of these calls
OneMutationPerId ==
  /\ \A m \in MsgIds : Cardinality(InFlight(m)) <= 1
  /\ \A m \in MsgIds : \A k \in InFlight(m) :
       \E call \in hook.calls : call.op = k /\ call.id = m
  /\ hook.pendingOperations = {call.id : call \in hook.calls}
  /\ \A c1, c2 \in hook.calls : c1.id = c2.id => c1 = c2

\* a call that returns at once issues nothing and leaves the list alone
SuppressedCallChangesNothing ==
  hook'.suppressed # hook.suppressed =>
    /\ UNCHANGED <<opens, txs, store, ops>>
    /\ hook'.bookmarks = hook.bookmarks
    /\ hook'.pendingOperations = hook.pendingOperations

C31_OneSamplePerInvocation ==
  /\ perf.recorded = Cardinality(perf.ended)
  /\ perf.ended = DOMAIN ops => perf.timers = {}

\* the elements of a list
Elements(list) == {list[j] : j \in DOMAIN list}

\* C32: every chat row written by saveChatMetadata has participantCount =
\* length(participants), no participant twice and no participant "System",
\* also for a message that is no system message and whose sender text is
\* "System"; its participants are the ones the parser computed.
C32_StoredParticipants ==
  \A r \in store.chats :
    /\ r.participantCount = Len(r.participants)
    /\ Cardinality(Elements(r.participants)) = Len(r.participants)
    /\ SystemSender \notin Elements(r.participants)
    /\ host.promise = "resolved" => r.participants = host.result[1].participants

\* the call settles in this step
Settles(call) == call \in hook.calls /\ call \notin hook'.calls

\* the store write of the call failed
WriteFailed(call) == ops[call.op].pc = "done" /\ ops[call.op].status = "error"

\* no other mutation ran between the start of the call and its end
Undisturbed(call) == call.alone /\ hook.calls = {call} /\ Len(ops) = call.op

\* C33: when the store write of addBookmark or deleteBookmark fails, the
\* rollback is the exact inverse of the optimistic update: the list after
\* it is the list before the call, same elements in the same order.
C33_RollbackIsExactInverse ==
  [][\A call \in hook.calls :
       Settles(call) /\ WriteFailed(call) /\ Undisturbed(call)
         => hook'.bookmarks = call.before]_vars

\* every mutation and every store operation has completed
Quiescent ==
  /\ hook.pc = "ready"
  /\ hook.calls = {}
  /\ \A k \in DOMAIN ops : ops[k].pc = "done"
  /\ txs = <<>>
  /\ opens = <<>>

\* the list the hook started from was the one of the store
LoadedFromStore ==
  /\ \A n \in DOMAIN hook.loads : ~hook.loads[n].failed
  /\ \A k \in DOMAIN ops : ops[k].kind = "loadBookmarks" => ~ops[k].degraded

\* C34: starting from a list that matches the store, after any
\* interleaving of addBookmark, deleteBookmark and toggleBookmark, failing
\* writes included, once all of them have completed the ids in memory are
\* the ids of the bookmarks collection.
C34_MemoryMatchesStore ==
  Quiescent /\ LoadedFromStore
    => Elements(hook.bookmarks) = {b.id : b \in store.bookmarks}

\* C35: the module holds a single shared handle: while it is valid at most
\* one connection is ever opened, also when several operations, or the two
\* halves of saveChat, make their first use of the database concurrently;
\* every later operation reuses the handle.
C35_OneConnection == conns <= 1

\* every operation called so far has completed
AllCompleted ==
  /\ \A k \in DOMAIN ops : ops[k].pc = "done"
  /\ opens = <<>>

\* C36: no bookmark outlives its chat: in every interleaving of
\* saveBookmarkLegacy(m, C), which reads its snapshot in one transaction and
\* writes in a later one, with deleteChat(C), once both have completed the
\* bookmarks collection has no row with chatId = C.
C36_NoBookmarkOutlivesItsChat ==
  \A k \in DOMAIN ops :
    (/\ AllCompleted
     /\ ops[k].kind = "deleteChat"
     /\ ops[k].status = "ok")
    => \A b \in store.bookmarks : b.chatId # ops[k].a.chatId

\* the saveBookmarkLegacy calls that stored their bookmark
StoredLegacy ==
  {k \in DOMAIN ops : /\ ops[k].kind = "saveBookmarkLegacy"
                      /\ ops[k].pc = "done"
                      /\ ops[k].status = "ok"}

\* C39: every bookmark row written by saveBookmarkLegacy(messageId, chatId)
\* has the chatId of the message row of the snapshot and the name of that
\* chat; a call whose chatId is not the one of the message stores no
\* bookmark.
C39_BookmarkOfTheMessagesChat ==
  \A k \in StoredLegacy :
    \A message \in ops[k].ghost.message :
      /\ ops[k].a.chatId = message.chatId
      /\ \A b \in store.bookmarks :
           b.id = message.id
             => b.chatId = message.chatId /\ b.chatName = ChatNameOf(message.chatId)

\* the legacy bookmarks whose message and chat are among the legacy chats
InLegacyChats(bookmarks) ==
  LET chats == legacy[LEGACY_DB_NAME].chats
  IN  {i \in DOMAIN bookmarks :
         \E c \in DOMAIN chats :
           /\ chats[c].id = bookmarks[i].chatId
           /\ \E j \in DOMAIN chats[c].messages :
                chats[c].messages[j].id = bookmarks[i].id}

\* C37: performFullMigration runs the chat migration and the bookmark
\* migration concurrently; in every interleaving, when both have returned,
\* each legacy bookmark whose message and chat are among the legacy chats
\* has its denormalized row, and the bookmark migration has not failed
\* because a chat had not been written yet.
C37_BookmarksMigratedNextToChats ==
  (mig.ch.pc = "done" /\ mig.bm.pc = "done" /\ AllCompleted) =>
    LET bookmarks == localStorage.bookmarks
    IN  /\ \A i \in InLegacyChats(bookmarks) :
             Get(store.bookmarks, bookmarks[i].id) # {}
        /\ InLegacyChats(bookmarks) = DOMAIN bookmarks => mig.bm.success

\* the removeChat call in flight ends in this step
RemoveChatEnds == hook.useChats.pc = "await" /\ hook'.useChats.pc = "idle"

\* the chats whose bookmarks are in the list of the bookmark hook
ChatsOfBookmarks(h) ==
  {b.chatId : b \in {x \in Elements(ops[h.op].out) : x.id \in Elements(h.bookmarks)}}

\* C40: when removeChat(C) has succeeded the state in memory holds nothing
\* of C: C is not in the chat list, not in the cache of loaded chats, and
\* the list of the bookmark hook has no bookmark with chatId = C; when the
\* delete fails the chat list and the cache are unchanged and the error is
\* thrown again.
C40_RemovedChatLeavesNothing ==
  [][RemoveChatEnds =>
       LET C == hook.useChats.chatId
       IN  IF ops[hook.useChats.op].status = "ok"
           THEN /\ ~Includes(hook'.useChats.chatList, C)
                /\ C \notin hook'.useChats.loadedChats
                /\ C \notin ChatsOfBookmarks(hook')
           ELSE /\ hook'.useChats.chatList = hook.useChats.chatList
                /\ hook'.useChats.loadedChats = hook.useChats.loadedChats
                /\ hook'.useChats.outcome = "rejected"]_vars

\* the ids of a list of messages, in the order of the list
IdSeq(messages) == [n \in DOMAIN messages |-> messages[n].id]

\* C38: the round trip through the store keeps the order of the transcript:
\* for a chat whose messages come from the parser, with dates of two to four
\* digit years and ids that differ, loadChat after a saveChat that succeeded
\* returns the messages in the order in which saveChat got them.
C38_RoundTripKeepsOrder ==
  \A k \in DOMAIN ops :
    (/\ ops[k].kind = "loadChat"
     /\ ops[k].pc = "done"
     /\ ops[k].status = "ok"
     /\ ops[k].out.found
     /\ LET ids == IdSeq(ops[1].a.chat.messages)
        IN  Cardinality(Elements(ids)) = Len(ids))
    => IdSeq(ops[k].out.messages) = IdSeq(ops[1].a.chat.messages)

====
